---- MODULE Spec2Model ----
(***************************************************************************)
(* A model of parts of the Ruffle core: the per-tick ActionQueue           *)
(* (core/src/context.rs) and the AVM1 Boolean and Number globals           *)
(* (core/src/avm1/globals/boolean.rs, number.rs), and the properties that  *)
(* boolean.rs, number.rs and string.rs install on the built-in objects;    *)
(* the error objects of AVM2 (core/src/avm2/object/error_object.rs); the   *)
(* reborrowing of an UpdateContext (core/src/context.rs); BitmapSmoothing  *)
(* (core/src/options.rs), Text::render (core/src/display_object/text.rs)   *)
(* and CpalAudioBackend::new (desktop/src/audio.rs).                       *)
(***************************************************************************)
EXTENDS Integers, Sequences, FiniteSets, TLC

VARIABLES
    action_queue,   \* ActionQueue.action_queue: one FIFO bucket per priority
    nqueued,        \* number of queue_actions calls made so far
    returned,       \* what pop_action has returned so far, in order
    removed,        \* the clips that have been removed from the stage
    executed,       \* the actions the dispatcher has run, in order
    dropped,        \* the actions the dispatcher has skipped, in order
    queued_log,     \* the arguments of every queue_actions call, in order
    box,            \* the boxed Value of every ValueObject
    version,        \* the SWF version of the running movie
    ncalls,         \* number of calls of native functions made so far
    call,           \* the last operation: its name, inputs and result
    props,          \* the own properties of the built-in objects of AVM1
    errors,         \* the ErrorObjects of AVM2 allocated so far, in order
    contexts,       \* the live UpdateContexts, each reborrowed from the one before
    roots,          \* the GcRootData that the contexts refer to
    smoothing,      \* the BitmapSmoothing option of the player
    render,         \* a call of Text::render: its text, its position, the stack
    audio           \* a call of CpalAudioBackend::new: its two threads

vars == <<action_queue, nqueued, returned, removed, executed, dropped, queued_log,
          box, version, ncalls, call, props, errors,
          contexts, roots, smoothing, render, audio>>

\* the state outside the queue and the boxes
heap_vars == <<props, errors, contexts, roots, smoothing, render, audio>>

----------------------------------------------------------------------------
(* Bounds of the model *)

\* queue_actions calls in one behaviour of the queue specification
MaxQueued == 4
\* queue_actions calls in one behaviour of the dispatch specification
MaxDispatchQueued == 3
\* calls of native functions in one behaviour
MaxCalls == 2
\* stores and deletions by script code in one behaviour
MaxScriptOps == 2
\* ErrorObjects allocated in one behaviour
MaxErrors == 3
\* UpdateContexts live at one time
MaxContexts == 3
MaxBlocks == 2
MaxGlyphs == 2
\* the receivers of toString include every whole number up to this magnitude
MaxSmall == 37

----------------------------------------------------------------------------
(* ActionQueue, context.rs *)

NUM_PRIORITIES == 3

ActionTypes ==
    {"Normal", "Initialize", "Construct", "Method", "NotifyListeners", "Callable2"}

Clips == {"clip1", "clip2"}

None == [some |-> FALSE]
Some(x) == [some |-> TRUE, val |-> x]

\* ActionType::priority
priority_swapped(action_type) ==
    CASE action_type = "Initialize" -> 1
      [] action_type = "Construct" -> 2
      [] OTHER -> 0
priority(action_type) ==
    CASE action_type = "Initialize" -> 2
      [] action_type = "Construct" -> 1
      [] OTHER -> 0

\* ActionQueue::new: NUM_PRIORITIES empty buckets.  Bucket i + 1 of the
\* tuple is action_queue[i] of the Vec.
new_queue_short == [i \in 1..(NUM_PRIORITIES - 1) |-> <<>>]
new_queue == [i \in 1..NUM_PRIORITIES |-> <<>>]

\* QueuedActions { clip, action_type, is_unload }; tag is the identity of the
\* payload (the n-th call of queue_actions made it).
QueuedActions(clip, action_type, is_unload, tag) ==
    [clip |-> clip, action_type |-> action_type, is_unload |-> is_unload, tag |-> tag]

\* ActionQueue::queue_actions: the queue after the call
queue_actions_no_unload(q, clip, action_type, is_unload, tag) ==
    LET p == priority(action_type)
        action == QueuedActions(clip, action_type, FALSE, tag)
    IN  IF p + 1 \in DOMAIN q
        THEN [q EXCEPT ![p + 1] = Append(@, action)]
        ELSE q
queue_actions_front(q, clip, action_type, is_unload, tag) ==
    LET p == priority(action_type)
        action == QueuedActions(clip, action_type, is_unload, tag)
    IN  IF p + 1 \in DOMAIN q
        THEN [q EXCEPT ![p + 1] = <<action>> \o @]
        ELSE q
queue_actions(q, clip, action_type, is_unload, tag) ==
    LET p == priority(action_type)
        action == QueuedActions(clip, action_type, is_unload, tag)
    IN  IF p + 1 \in DOMAIN q
        THEN [q EXCEPT ![p + 1] = Append(@, action)]
        ELSE q

\* the buckets of q in the order `for queue in ....iter_mut()` visits them,
\* and in the order of .rev()
iter_mut(q) == [i \in 1..Len(q) |-> i]
rev_skipped(order) == order
rev(order) == [i \in 1..Len(order) |-> order[Len(order) + 1 - i]]

\* the loop of pop_action over the buckets in the given order: the first
\* bucket whose pop_front is Some ends it
RECURSIVE pop_loop(_, _)
pop_loop(q, order) ==
    IF order = <<>>
    THEN [action |-> None, queue |-> q]
    ELSE LET i == Head(order) IN
         IF q[i] # <<>>
         THEN [action |-> Some(Head(q[i])), queue |-> [q EXCEPT ![i] = Tail(@)]]
         ELSE pop_loop(q, Tail(order))

\* ActionQueue::pop_action: the returned Option and the queue after the call
pop_action_forward(q) == pop_loop(q, iter_mut(q))
pop_action(q) == pop_loop(q, rev(iter_mut(q)))

----------------------------------------------------------------------------
(* Numbers.  An f64 is NaN, an infinity or a finite value; the finite values *)
(* of the model are sign * (hi * 2^16 + lo + half / 2), which keeps every    *)
(* intermediate result of the 32-bit arithmetic within the integers of TLC.  *)

LIMB == 2^16

Fin(neg, hi, lo, half) == [k |-> "fin", neg |-> neg, hi |-> hi, lo |-> lo, half |-> half]
NaN == [k |-> "nan", neg |-> FALSE, hi |-> 0, lo |-> 0, half |-> FALSE]
Inf(neg) == [k |-> "inf", neg |-> neg, hi |-> 0, lo |-> 0, half |-> FALSE]

\* the integer i, and i + 1/2 away from zero, for |i| < 2^16
Whole(i) == IF i < 0 THEN Fin(TRUE, 0, 0 - i, FALSE) ELSE Fin(FALSE, 0, i, FALSE)
Half(i) == IF i < 0 THEN Fin(TRUE, 0, 0 - i, TRUE) ELSE Fin(FALSE, 0, i, TRUE)

is_finite(x) == x.k = "fin"
is_nan(x) == x.k = "nan"
IsZero(x) == is_finite(x) /\ x.hi = 0 /\ x.lo = 0 /\ ~x.half

\* x >= 2.0 and x <= 36.0 of f64 (false for NaN)
ge_2(x) ==
    \/ x.k = "inf" /\ ~x.neg
    \/ x.k = "fin" /\ ~x.neg /\ (x.hi > 0 \/ x.lo >= 2)
le_36(x) ==
    \/ x.k = "inf" /\ x.neg
    \/ x.k = "fin" /\ (x.neg \/ (x.hi = 0 /\ (x.lo < 36 \/ (x.lo = 36 /\ ~x.half))))

I32_MIN == (0 - 32768) * LIMB
I32_MAX == 32767 * LIMB + 65535

\* a u32 as two 16-bit limbs
U32(hi, lo) == [hi |-> hi, lo |-> lo]

\* 2^32 - n modulo 2^32
u32_wrapping_neg(n) ==
    IF n.lo = 0
    THEN U32((LIMB - n.hi) % LIMB, 0)
    ELSE U32(LIMB - 1 - n.hi, LIMB - n.lo)

\* n / radix and n % radix of u32
u32_divmod(n, radix) ==
    LET t == (n.hi % radix) * LIMB + n.lo
    IN  [quot |-> U32(n.hi \div radix, t \div radix), rem |-> t % radix]

\* `n as u32` of an i32
i32_as_u32(n) == U32((n \div LIMB) % LIMB, n % LIMB)

\* a u32 reinterpreted as i32
u32_as_i32(n) ==
    IF n.hi >= 32768 THEN (n.hi - LIMB) * LIMB + n.lo ELSE n.hi * LIMB + n.lo

\* f64_to_wrapping_i32: truncate toward zero, reduce modulo 2^32, reinterpret
\* as two's complement
f64_to_wrapping_i32(x) ==
    LET m == U32(x.hi % LIMB, x.lo)
    IN  u32_as_i32(IF x.neg THEN u32_wrapping_neg(m) ELSE m)

\* `radix as u32` of an f64 known to lie in [2, 36]
f64_as_u32(x) == x.hi * LIMB + x.lo

----------------------------------------------------------------------------
(* Strings are sequences of characters *)

DecimalDigits == <<"0", "1", "2", "3", "4", "5", "6", "7", "8", "9">>

\* the digits of the magnitude hi * 2^16 + lo in base 10, least significant
\* first
RECURSIVE decimal_digits(_)
decimal_digits(n) ==
    IF n.hi = 0 /\ n.lo = 0
    THEN <<>>
    ELSE LET t == (n.hi % 10) * LIMB + n.lo
         IN  <<DecimalDigits[(t % 10) + 1]>>
                 \o decimal_digits([hi |-> n.hi \div 10, lo |-> t \div 10])

Reverse(s) == [i \in 1..Len(s) |-> s[Len(s) + 1 - i]]

\* coerce_to_string of a Number: the shortest decimal that reads back as the
\* value; "NaN", "Infinity", "-Infinity"
f64_to_string(x) ==
    CASE x.k = "nan" -> <<"N", "a", "N">>
      [] x.k = "inf" -> (IF x.neg THEN <<"-">> ELSE <<>>)
                            \o <<"I", "n", "f", "i", "n", "i", "t", "y">>
      [] OTHER ->
            LET int == Reverse(decimal_digits([hi |-> x.hi, lo |-> x.lo]))
            IN  (IF x.neg THEN <<"-">> ELSE <<>>)
                    \o (IF int = <<>> THEN <<"0">> ELSE int)
                    \o (IF x.half THEN <<".", "5">> ELSE <<>>)

DigitValue(c) ==
    IF \E i \in DOMAIN DecimalDigits : DecimalDigits[i] = c
    THEN (CHOOSE i \in DOMAIN DecimalDigits : DecimalDigits[i] = c) - 1
    ELSE 0 - 1

\* the value of a string of decimal digits of at most four places, NaN
\* otherwise
RECURSIVE digits_value(_, _)
digits_value(s, acc) ==
    IF s = <<>> THEN acc
    ELSE IF acc < 0 \/ DigitValue(Head(s)) < 0 THEN 0 - 1
    ELSE digits_value(Tail(s), acc * 10 + DigitValue(Head(s)))

\* as_number of a String: a decimal literal, NaN otherwise
string_to_number(s) ==
    LET neg == s # <<>> /\ Head(s) = "-"
        body == IF neg THEN Tail(s) ELSE s
        v == IF body = <<>> \/ Len(body) > 4 THEN 0 - 1 ELSE digits_value(body, 0)
    IN  IF v < 0 THEN NaN
        ELSE IF v = 0 THEN Whole(0)
        ELSE Fin(neg, 0, v, FALSE)

Lower(c) ==
    CASE c = "T" -> "t" [] c = "R" -> "r" [] c = "U" -> "u" [] c = "E" -> "e"
      [] OTHER -> c

----------------------------------------------------------------------------
(* Values and objects of AVM1 *)

NoString == <<>>
NoObject == "-"

Value(t, b, n, s, o) == [t |-> t, b |-> b, n |-> n, s |-> s, o |-> o]
Undefined == Value("Undefined", FALSE, NaN, NoString, NoObject)
Null == Value("Null", FALSE, NaN, NoString, NoObject)
Bool(b) == Value("Bool", b, NaN, NoString, NoObject)
Number(n) == Value("Number", FALSE, n, NoString, NoObject)
String(s) == Value("String", FALSE, NaN, s, NoObject)
Object(o) == Value("Object", FALSE, NaN, NoString, o)

\* the objects of the model: two ValueObjects, one whose prototype chain ends
\* in Boolean.prototype and one in Number.prototype, a plain ScriptObject and
\* an object whose valueOf fails
ValueObjects == {"boolean_box", "number_box"}
Objects == ValueObjects \cup {"plain", "failing"}

\* ValueObject::empty_box
empty_boxes == [o \in ValueObjects |-> Undefined]

\* TObject::as_value_object
as_value_object(this) == IF this \in ValueObjects THEN Some(this) ELSE None

\* ValueObject::unbox, ValueObject::replace_value
unbox(bx, vbox) == bx[vbox]
replace_value(bx, vbox, value) == [bx EXCEPT ![vbox] = value]

Ok(v) == [kind |-> "Ok", val |-> v]
Err == [kind |-> "Err", val |-> Undefined]
Panic == [kind |-> "Panic", val |-> Undefined]

\* Value::as_bool(version)
as_bool(v, swf_version) ==
    CASE v.t = "Bool" -> v.b
      [] v.t = "Number" -> ~is_nan(v.n) /\ ~IsZero(v.n)
      [] v.t = "String" ->
            LET n == string_to_number(v.s)
                nonzero == ~is_nan(n) /\ ~IsZero(n)
            IN  IF swf_version >= 7
                THEN nonzero
                ELSE nonzero \/ [i \in DOMAIN v.s |-> Lower(v.s[i])] = <<"t", "r", "u", "e">>
      [] v.t = "Object" -> TRUE
      [] OTHER -> FALSE

\* as_number of a primitive Value
primitive_as_number(v) ==
    CASE v.t = "Bool" -> IF v.b THEN Whole(1) ELSE Whole(0)
      [] v.t = "Number" -> v.n
      [] v.t = "String" -> string_to_number(v.s)
      [] OTHER -> NaN

----------------------------------------------------------------------------
(* Coercions that may run script code *)

\* Value::coerce_to_string
coerce_to_string(v) ==
    CASE v.t = "Number" -> f64_to_string(v.n)
      [] v.t = "String" -> v.s
      [] v.t = "Bool" -> IF v.b THEN <<"t", "r", "u", "e">> ELSE <<"f", "a", "l", "s", "e">>
      [] v.t = "Null" -> <<"n", "u", "l", "l">>
      [] v.t = "Undefined" -> <<"u", "n", "d", "e", "f", "i", "n", "e", "d">>
      [] OTHER -> <<"[", "o", "b", "j", "e", "c", "t", " ", "O", "b", "j", "e", "c", "t", "]">>

NumOk(n) == [kind |-> "Ok", num |-> n]
NumErr == [kind |-> "Err", num |-> NaN]

\* a native function returns its Result and leaves the boxes of the
\* ValueObjects as it made them
Return(ret, bx) == [ret |-> ret, box |-> bx, radix |-> 0, idx |-> <<>>]

\* boolean.rs, value_of
boolean_value_of(bx, swf_version, this, args) ==
    Return(Ok(Undefined), bx)

RECURSIVE as_number(_, _, _)
RECURSIVE number_value_of(_, _, _, _)

\* Value::as_number: a primitive by its rule; an object by its valueOf, NaN
\* when that is still an object, the error when valueOf fails
as_number(bx, swf_version, v) ==
    IF v.t # "Object" THEN NumOk(primitive_as_number(v))
    ELSE LET r == CASE v.o = "failing" -> Err
                     [] v.o = "plain" -> Ok(v)
                     [] v.o = "boolean_box" ->
                            boolean_value_of(bx, swf_version, v.o, <<>>).ret
                     [] OTHER -> number_value_of(bx, swf_version, v.o, <<>>).ret
         IN  IF r.kind # "Ok" THEN NumErr
             ELSE IF r.val.t = "Object" THEN NumOk(NaN)
             ELSE NumOk(primitive_as_number(r.val))

\* number.rs, value_of
number_value_of_boxing(bx, swf_version, this, args) ==
    LET vbox == as_value_object(this)
    IN  IF vbox.some
        THEN LET n == as_number(bx, swf_version, unbox(bx, vbox.val))
             IN  IF n.kind = "Ok"
                 THEN Return(Ok(Number(n.num)), replace_value(bx, vbox.val, Number(n.num)))
                 ELSE Return(Err, bx)
        ELSE Return(Ok(Undefined), bx)
number_value_of(bx, swf_version, this, args) ==
    LET vbox == as_value_object(this)
    IN  IF vbox.some
        THEN LET n == as_number(bx, swf_version, unbox(bx, vbox.val))
             IN  IF n.kind = "Ok" THEN Return(Ok(Number(n.num)), bx) ELSE Return(Err, bx)
        ELSE Return(Ok(Undefined), bx)

----------------------------------------------------------------------------
(* boolean.rs *)

\* `Boolean` constructor/function
boolean_no_box(bx, swf_version, this, args) ==
    LET value == IF Len(args) >= 1
                 THEN Bool(as_bool(args[1], swf_version))
                 ELSE Bool(FALSE)
    IN  Return(Ok(value), bx)
boolean(bx, swf_version, this, args) ==
    LET value == IF Len(args) >= 1
                 THEN Bool(as_bool(args[1], swf_version))
                 ELSE Bool(FALSE)
        vbox == as_value_object(this)
    IN  Return(Ok(value),
               IF vbox.some THEN replace_value(bx, vbox.val, value) ELSE bx)

\* to_string
boolean_to_string_strict(bx, swf_version, this, args) ==
    LET vbox == as_value_object(this)
    IN  IF vbox.some
        THEN Return(Ok(Bool(as_bool(unbox(bx, vbox.val), swf_version))), bx)
        ELSE Return(Err, bx)
boolean_to_string(bx, swf_version, this, args) ==
    LET vbox == as_value_object(this)
    IN  IF vbox.some
        THEN Return(Ok(Bool(as_bool(unbox(bx, vbox.val), swf_version))), bx)
        ELSE Return(Ok(Undefined), bx)

----------------------------------------------------------------------------
(* number.rs *)

\* `Number` constructor/function
number_box_first(bx, swf_version, this, args) ==
    LET value == IF Len(args) >= 1
                 THEN as_number(bx, swf_version, args[1])
                 ELSE NumOk(Whole(0))
        vbox == as_value_object(this)
        stored == IF value.kind = "Ok" THEN Number(value.num) ELSE Number(NaN)
        boxed == IF vbox.some THEN replace_value(bx, vbox.val, stored) ELSE bx
    IN  IF value.kind # "Ok" THEN Return(Err, boxed)
        ELSE Return(Ok(Number(value.num)), boxed)
number(bx, swf_version, this, args) ==
    LET value == IF Len(args) >= 1
                 THEN as_number(bx, swf_version, args[1])
                 ELSE NumOk(Whole(0))
        vbox == as_value_object(this)
    IN  IF value.kind # "Ok" THEN Return(Err, bx)
        ELSE Return(Ok(Number(value.num)),
                    IF vbox.some
                    THEN replace_value(bx, vbox.val, Number(value.num))
                    ELSE bx)

\* The digits used in `toString`
DIGITS == <<"0", "1", "2", "3", "4", "5", "6", "7", "8", "9", "a", "b", "c", "d", "e", "f",
            "g", "h", "i", "j", "k", "l", "m", "n", "o", "p", "q", "r", "s", "t", "u", "v",
            "w", "x", "y", "z">>

\* The values returned by `NaN.toString(radix)` for each radix from 2 to 36
TO_STRING_NANS == <<
    <<"-", "/", "0", "0", "0", "0", "0", "0", "0", "0", "0", "0", "0", "0", "0", "0", "0", "0", "0", "0", "0", "0", "0", "0", "0", "0", "0", "0", "0", "0", "0", "0", "0">>,
    <<"-", "/", ".", "/", "/", ".", "/", ".", ".", ".", "/", ".", "/", "/", "0", ".", "0", ".", "/", "0", ".">>,
    <<"-", ".", "0", "0", "0", "0", "0", "0", "0", "0", "0", "0", "0", "0", "0", "0", "0">>,
    <<"-", "/", "-", "-", ",", ",", ".", ".", "-", ",", "-", ",", "0", ",", "-">>,
    <<"-", "+", "+", "-", "0", "-", ".", "0", "0", "+", "+", "-", ".">>,
    <<"-", "/", "0", ",", "/", "-", ",", ".", "/", "/", "/", "*", ".">>,
    <<"-", ".", "0", "0", "0", "0", "0", "0", "0", "0", "0", "0">>,
    <<"-", "+", ",", ")", "(", ")", ")", "-", "*", ")", ".">>,
    <<"N", "a", "N">>,
    <<"-", "&", "0", ".", ".", ".", "0", ".", "(", ".">>,
    <<"-", ",", "%", "%", ".", "-", "0", "(", "&", "(">>,
    <<"-", ".", "(", ".", "%", "&", ",", "&", "&", "%">>,
    <<"-", "/", "*", "+", ".", "$", "&", "'", "-", ".">>,
    <<"-", "$", "(", ")", "\"", "*", "*", "%", "(">>,
    <<"-", "(", "0", "0", "0", "0", "0", "0", "0">>,
    <<"-", "+", "-", " ", ")", "!", "+", ",", "'">>,
    <<"-", "-", "'", ".", "(", " ", "-", "\\x1F", ".">>,
    <<"-", ".", ")", "$", "+", ")", "\\x1F", "-", "-">>,
    <<"-", "/", "#", "%", "/", "!", "'", ".", "(">>,
    <<"-", "/", ",", "0", "\\x1F", ".", "#", "'", ".">>,
    <<"-", "\\x1E", "\\x1C", "!", "+", "%", "!", ".">>,
    <<"-", "\"", "%", "\"", "\\x1B", "!", "'", "*">>,
    <<"-", "%", "+", " ", " ", "\"", "+", "(">>,
    <<"-", "(", "\\x1D", "\\x1A", "#", "\\x19", "\\x1C", "\\x19">>,
    <<"-", "*", "\\x18", "\\x1D", "(", "\\x1E", "\\x18", "\\x18">>,
    <<"-", "+", "\"", "\\x1F", "\\x19", "$", "\\x1C", "%">>,
    <<"-", ",", "$", "\\x1B", "\\x1A", "'", "(", " ">>,
    <<"-", "-", "\\x1F", "\\x1C", ")", "'", "(", "(">>,
    <<"-", ".", "\\x14", "%", "*", "$", "\\x14", "(">>,
    <<"-", ".", "#", "0", "'", "\\x12", "$", ".">>,
    <<"-", ".", "0", "0", "0", "0", "0", "0">>,
    <<"-", "/", "\\x1B", "\\x14", "\\x16", "\\x13", "\\x1B", ".">>,
    <<"-", "/", "#", "(", "\\x0F", "\\x16", "\\x15", "\\x16">>,
    <<"-", "/", "+", "\\x11", ".", ".", "\\x12", "\\x19">>,
    <<"-", "\\x0D", "\\x1E", "\\x1C", "0", "\\x0D", "\\x1C">>
>>

\* `while n > 0 { digit = n % radix; n /= radix; digits.push(..) }`: the
\* indices into DIGITS, least significant first
RECURSIVE digit_loop(_, _, _)
digit_loop(n, radix, digits) ==
    IF n.hi = 0 /\ n.lo = 0
    THEN digits
    ELSE LET dm == u32_divmod(n, radix)
         IN  digit_loop(dm.quot, radix, Append(digits, dm.rem))

\* `if radix >= 2.0 && radix <= 36.0 { radix as u32 } else { 10 }`
effective_radix_exclusive(radix) ==
    IF ge_2(radix) /\ le_36(radix) /\ f64_as_u32(radix) \notin {2, 36}
    THEN f64_as_u32(radix)
    ELSE 10
effective_radix(radix) ==
    IF ge_2(radix) /\ le_36(radix) THEN f64_as_u32(radix) ELSE 10

\* `digits.into_iter().rev().collect()`
collect_no_rev(digits) == digits
collect_rev(digits) == Reverse(digits)

\* `radix as usize - 2`, the index into TO_STRING_NANS
nan_index_from_one(radix) == radix - 1
nan_index(radix) == radix - 2

\* to_string; overflow_checks tells whether the build panics on arithmetic
\* overflow (a debug build) or wraps (a release build).  The record returned
\* also tells the radix and the indices into DIGITS, or the index into
\* TO_STRING_NANS, that were used.
number_to_string(bx, swf_version, this, args, overflow_checks) ==
    LET this_n == as_number(bx, swf_version, Object(this))
        radix_n == as_number(bx, swf_version, IF Len(args) >= 1 THEN args[1] ELSE Undefined)
        radix == effective_radix(radix_n.num)
        Used(r, digits) == [r EXCEPT !.radix = radix, !.idx = digits]
    IN  IF this_n.kind # "Ok" \/ radix_n.kind # "Ok" THEN Return(Err, bx)
        ELSE IF radix = 10
        THEN Used(Return(Ok(String(coerce_to_string(Number(this_n.num)))), bx), <<>>)
        ELSE IF is_finite(this_n.num)
        THEN LET n == f64_to_wrapping_i32(this_n.num)
                 is_negative == n < 0
                 \* `n = -n` when no overflow check stops it
                 negated == IF n = I32_MIN THEN n ELSE 0 - n
                 digits == digit_loop(i32_as_u32(IF n < 0 THEN negated ELSE n), radix, <<>>)
                 chars == [i \in DOMAIN digits |-> DIGITS[digits[i] + 1]]
                 pushed == IF is_negative THEN Append(chars, "-") ELSE chars
             IN  IF n < 0 /\ n = I32_MIN /\ overflow_checks
                 THEN Used(Return(Panic, bx), <<>>)
                 ELSE IF n = 0 THEN Used(Return(Ok(String(<<"0">>)), bx), <<>>)
                 ELSE IF \E i \in DOMAIN digits : digits[i] + 1 \notin DOMAIN DIGITS
                 THEN Used(Return(Panic, bx), digits)
                 ELSE Used(Return(Ok(String(collect_rev(pushed))), bx), digits)
        \* a Rust slice is indexed from 0, a sequence from 1; an index outside
        \* the slice panics
        ELSE IF nan_index(radix) + 1 \in DOMAIN TO_STRING_NANS
        THEN Used(Return(Ok(String(TO_STRING_NANS[nan_index(radix) + 1])), bx),
                  <<nan_index(radix)>>)
        ELSE Used(Return(Panic, bx), <<nan_index(radix)>>)

----------------------------------------------------------------------------
(* Properties of objects: a slot has a value and a set of attributes *)

DontEnum == "DontEnum"
DontDelete == "DontDelete"
ReadOnly == "ReadOnly"

\* EnumSet::empty()
EnumSet_empty == {}

\* std::f64::MAX and std::f64::MIN, the largest finite number and its
\* negation; they are only stored in slots, never computed with
F64_MAX == [k |-> "max", neg |-> FALSE, hi |-> 0, lo |-> 0, half |-> FALSE]
F64_MIN == [k |-> "max", neg |-> TRUE, hi |-> 0, lo |-> 0, half |-> FALSE]

\* a native function as a Value
Function(native) == Value("Function", FALSE, NaN, NoString, native)

\* the property map of a new object
no_slots == [name \in {} |-> [value |-> Undefined, attributes |-> EnumSet_empty]]

\* ScriptObject::define_value: host-side creation that bypasses ReadOnly
define_value(slots, name, value, attributes) ==
    (name :> [value |-> value, attributes |-> attributes]) @@ slots

\* ScriptObject::force_set_function: installs a native function as a property
force_set_function(slots, name, function, attributes) ==
    define_value(slots, name, Function(function), attributes)

\* TObject::set by script code: the store to a ReadOnly slot is ignored; an
\* absent property is created enumerable, deletable and writable
set(slots, name, value) ==
    IF name \in DOMAIN slots
    THEN IF ReadOnly \in slots[name].attributes
         THEN slots
         ELSE [slots EXCEPT ![name].value = value]
    ELSE define_value(slots, name, value, EnumSet_empty)

\* TObject::delete by script code: a DontDelete slot stays
delete(slots, name) ==
    IF name \in DOMAIN slots /\ DontDelete \notin slots[name].attributes
    THEN [n \in DOMAIN slots \ {name} |-> slots[n]]
    ELSE slots

\* number.rs, create_number_object: the slots of the Number constructor
create_number_object_writable ==
    LET attributes == {DontDelete, DontEnum}
        o1 == define_value(no_slots, "MAX_VALUE", Number(F64_MAX), attributes)
        o2 == define_value(o1, "MIN_VALUE", Number(F64_MIN), attributes)
        o3 == define_value(o2, "NaN", Number(NaN), attributes)
        o4 == define_value(o3, "NEGATIVE_INFINITY", Number(Inf(TRUE)), attributes)
    IN  define_value(o4, "POSITIVE_INFINITY", Number(Inf(FALSE)), attributes)
create_number_object ==
    LET o1 == define_value(no_slots, "MAX_VALUE", Number(F64_MAX),
                           {DontDelete, ReadOnly, DontEnum})
        o2 == define_value(o1, "MIN_VALUE", Number(F64_MIN),
                           {DontDelete, ReadOnly, DontEnum})
        o3 == define_value(o2, "NaN", Number(NaN),
                           {DontDelete, ReadOnly, DontEnum})
        o4 == define_value(o3, "NEGATIVE_INFINITY", Number(Inf(TRUE)),
                           {DontDelete, ReadOnly, DontEnum})
    IN  define_value(o4, "POSITIVE_INFINITY", Number(Inf(FALSE)),
                     {DontDelete, ReadOnly, DontEnum})

\* number.rs, create_proto: the slots of Number.prototype
number_create_proto ==
    LET o1 == force_set_function(no_slots, "toString", "number_to_string", EnumSet_empty)
    IN  force_set_function(o1, "valueOf", "number_value_of", EnumSet_empty)

\* boolean.rs, create_proto: the slots of Boolean.prototype
boolean_create_proto ==
    LET o1 == force_set_function(no_slots, "toString", "boolean_to_string", EnumSet_empty)
    IN  force_set_function(o1, "valueOf", "boolean_value_of", EnumSet_empty)

\* string.rs, create_proto: the slots of String.prototype
string_create_proto ==
    LET attributes == {DontDelete, ReadOnly, DontEnum}
        o1 == force_set_function(no_slots, "charAt", "char_at", attributes)
        o2 == force_set_function(o1, "charCodeAt", "char_code_at", attributes)
        o3 == force_set_function(o2, "concat", "concat", attributes)
        o4 == force_set_function(o3, "from_char_code", "from_char_code", attributes)
        o5 == force_set_function(o4, "indexOf", "index_of", attributes)
        o6 == force_set_function(o5, "lastIndexOf", "last_index_of", attributes)
        o7 == force_set_function(o6, "slice", "slice", attributes)
        o8 == force_set_function(o7, "split", "split", attributes)
        o9 == force_set_function(o8, "substr", "substr", attributes)
        o10 == force_set_function(o9, "substring", "substring", attributes)
        o11 == force_set_function(o10, "toLowerCase", "to_lower_case", attributes)
    IN  force_set_function(o11, "toUpperCase", "to_upper_case", attributes)

\* the built-in objects
BuiltIns == {"Number", "Number.prototype", "Boolean.prototype", "String.prototype"}

----------------------------------------------------------------------------
(* Error objects of AVM2 *)

\* globals/error.rs, ErrorDef
ErrorDef(id, name, message) == [id |-> id, name |-> name, message |-> message]

ERROR_1000 ==
    ErrorDef(1000, <<"E", "r", "r", "o", "r">>,
             <<"T", "h", "e", " ", "s", "y", "s", "t", "e", "m", " ", "i",
             "s", " ", "o", "u", "t", " ", "o", "f", " ", "m", "e", "m", "o",
             "r", "y", ".">>)

ERROR_1001 ==
    ErrorDef(1069, <<"R", "e", "f", "e", "r", "e", "n", "c", "e", "E", "r", "r", "o", "r">>,
             <<"P", "r", "o", "p", "e", "r", "t", "y", " ", "{", "}", " ",
             "n", "o", "t", " ", "f", "o", "u", "n", "d", " ", "f", "o", "r",
             " ", "{", "}", " ", "a", "n", "d", " ", "t", "h", "e", "r", "e",
             " ", "i", "s", " ", "n", "o", " ", "d", "e", "f", "a", "u", "l",
             "t", " ", "v", "a", "l", "u", "e", ".">>)

\* Value::coerce_to_string and Value::coerce_to_i32 of AVM2: the coercion of
\* a primitive, and the error of an object whose conversion fails
StrOk(s) == [kind |-> "Ok", val |-> s]
StrErr == [kind |-> "Err", val |-> <<>>]
IntOk(i) == [kind |-> "Ok", val |-> i]
IntErr == [kind |-> "Err", val |-> 0]

avm2_coerce_to_string(v) ==
    IF v.t = "Object" /\ v.o = "failing" THEN StrErr ELSE StrOk(coerce_to_string(v))

avm2_coerce_to_i32(v) ==
    IF v.t = "Object"
    THEN IF v.o = "failing" THEN IntErr ELSE IntOk(0)
    ELSE IntOk(f64_to_wrapping_i32(primitive_as_number(v)))

\* ErrorObject::new: allocates the object after those of the heap; an object
\* is known by its place in the heap
ErrorObject_new(heap, base_proto, id, name, message) ==
    [ret |-> IntOk(Len(heap) + 1),
     heap |-> Append(heap, [base_proto |-> base_proto, id |-> id, name |-> name,
                            message |-> message])]

\* ErrorObject::from_error_def
from_error_def(heap, base_proto, error_def) ==
    [ret |-> IntOk(Len(heap) + 1),
     heap |-> Append(heap, [base_proto |-> base_proto, id |-> error_def.id,
                            name |-> error_def.name, message |-> error_def.message])]

\* TObject::derive of an ErrorObject
derive(heap, self, args) ==
    ErrorObject_new(heap, Some(self), 0, <<>>, <<>>)

\* TObject::construct of an ErrorObject
construct_allocating_first(heap, self, args) ==
    LET message == avm2_coerce_to_string(IF Len(args) >= 1 THEN args[1] ELSE Undefined)
        id == avm2_coerce_to_i32(IF Len(args) >= 2 THEN args[2] ELSE Undefined)
        new == ErrorObject_new(heap, Some(self), id.val, heap[self].name, message.val)
    IN  IF message.kind # "Ok" THEN [ret |-> IntErr, heap |-> heap]
        ELSE IF id.kind # "Ok" THEN [ret |-> IntErr, heap |-> new.heap]
        ELSE new
construct(heap, self, args) ==
    LET this == self
        message == avm2_coerce_to_string(IF Len(args) >= 1 THEN args[1] ELSE Undefined)
        id == avm2_coerce_to_i32(IF Len(args) >= 2 THEN args[2] ELSE Undefined)
    IN  IF message.kind # "Ok" THEN [ret |-> IntErr, heap |-> heap]
        ELSE IF id.kind # "Ok" THEN [ret |-> IntErr, heap |-> heap]
        ELSE ErrorObject_new(heap, Some(this), id.val, heap[self].name, message.val)

----------------------------------------------------------------------------
(* UpdateContext, context.rs *)

\* UpdateContext { player_data, gc_data, gc_context }: two `&mut` references
\* and the MutationContext, each known by the name of what it refers to
UpdateContext(player_data, gc_data, gc_context) ==
    [player_data |-> player_data, gc_data |-> gc_data, gc_context |-> gc_context]

\* the GcRootData of the player, and another one that is not the player's
GcRoots == {"gc_data", "other_gc_data"}

SoundTransforms == {"default", "quiet", "left"}

\* what the model keeps of a GcRootData: its action queue and the global
\* sound transform and the dirty flag of its audio manager
new_gc_data ==
    [action_queue |-> new_queue, global_sound_transform |-> "default",
     sound_transforms_dirty |-> FALSE]

\* UpdateContext::reborrow
reborrow_detached(self) ==
    UpdateContext("other_player_data", "other_gc_data", self.gc_context)
reborrow(self) ==
    UpdateContext(self.player_data, self.gc_data, self.gc_context)

\* `&'b mut self` with 'a: 'b: while the context that reborrow returned is
\* live the context it borrows from cannot be used, so of a chain of
\* reborrows only the last can
usable(stack, i) == i = Len(stack)

\* UpdateContext::set_global_sound_transform, global_sound_transform
set_global_sound_transform(mem, self, sound_transform) ==
    [mem EXCEPT ![self.gc_data].global_sound_transform = sound_transform]
global_sound_transform(mem, self) == mem[self.gc_data].global_sound_transform

\* UpdateContext::set_sound_transforms_dirty
set_sound_transforms_dirty(mem, self) ==
    [mem EXCEPT ![self.gc_data].sound_transforms_dirty = TRUE]

\* UpdateContext::update_sounds: the audio manager is given the action queue
\* of gc_data and enqueues the onSoundComplete call of a sound that finished
update_sounds(mem, self, finished, tag) ==
    IF finished
    THEN [mem EXCEPT ![self.gc_data].action_queue =
                         queue_actions(@, "clip1", "Method", FALSE, tag)]
    ELSE mem

\* no built-in object and no error object yet; the UpdateContext that the
\* player made for this tick
HeapInit ==
    /\ props = [o \in BuiltIns |-> [created |-> FALSE, slots |-> no_slots]]
    /\ errors = <<>>
    /\ contexts = <<UpdateContext("player_data", "gc_data", "gc_context")>>
    /\ roots = [r \in GcRoots |-> new_gc_data]

----------------------------------------------------------------------------
(* BitmapSmoothing, options.rs *)

BitmapSmoothings == {"Default", "Always", "Never"}

\* impl FromStr for BitmapSmoothing
smoothing_from_str(s) ==
    CASE s = "default" -> [kind |-> "Ok", val |-> "Default"]
      [] s = "always" -> [kind |-> "Ok", val |-> "Always"]
      [] s = "never" -> [kind |-> "Ok", val |-> "Never"]
      [] OTHER -> [kind |-> "Err", val |-> "Invalid bitmap smoothing"]

\* impl ToString for BitmapSmoothing
smoothing_to_string(self) ==
    CASE self = "Default" -> "default"
      [] self = "Always" -> "always"
      [] self = "Never" -> "n.ever"

----------------------------------------------------------------------------
(* Text::render, display_object/text.rs *)

\* TransformStack::push and TransformStack::pop, as the render back end
\* offers them: push puts one transform on the stack, pop takes the last
\* one away
transform_stack_push(stack, transform) == Append(stack, transform)
transform_stack_pop(stack) ==
    IF stack = <<>> THEN stack ELSE SubSeq(stack, 1, Len(stack) - 1)

\* `context.library.get_font(font_id)`: the library holds font 1 alone, a
\* font of one glyph
get_font(font_id) == IF font_id = 1 THEN Some([id |-> 1, glyphs |-> 1]) ELSE None

\* `font.get_glyph(index)`
get_glyph(font, index) == IF index < font.glyphs THEN Some(index) ELSE None

----------------------------------------------------------------------------
(* CpalAudioBackend, desktop/src/audio.rs *)

\* a Box<dyn Error>: the type of the error it holds and what it displays
BoxError(error, message) == [error |-> error, message |-> message]

\* CpalAudioBackend::init on a host where each call of cpal gives what env
\* tells: "ok", "err", or "panic" where the call panics; `?` returns the
\* error at once
init(env) ==
    CASE env.device = "panic" -> [kind |-> "Panic"]
      [] env.device = "err" ->
             [kind |-> "Err", val |-> BoxError("&str", "No audio devices available")]
      [] env.config = "panic" -> [kind |-> "Panic"]
      [] env.config = "err" ->
             [kind |-> "Err", val |-> BoxError("DefaultStreamConfigError", "config")]
      [] env.channels = "err" ->
             [kind |-> "Err", val |-> BoxError("TryFromIntError", "channels")]
      [] env.build = "panic" -> [kind |-> "Panic"]
      [] env.build = "err" ->
             [kind |-> "Err", val |-> BoxError("BuildStreamError", "build")]
      [] env.play = "panic" -> [kind |-> "Panic"]
      [] env.play = "err" ->
             [kind |-> "Err", val |-> BoxError("PlayStreamError", "play")]
      [] OTHER ->
             [kind |-> "Ok", val |-> [sample_format |-> env.sample_format, playing |-> TRUE]]

\* the closure given to the thread: `Self::init().map_err(|e| e.to_string())`
init_thread(env) ==
    LET r == init(env) IN
    IF r.kind = "Err" THEN [kind |-> "Err", val |-> r.val.message] ELSE r

\* `match init_thread.join()`, for a thread that has ended: join gives Err
\* when the thread panicked and Ok of what the closure returned otherwise
join(panicked, returned_value) ==
    CASE panicked ->
             [kind |-> "Err", val |-> BoxError("&str", "Panic when initializing audio")]
      [] returned_value.kind = "Ok" -> [kind |-> "Ok", val |-> returned_value.val]
      [] OTHER -> [kind |-> "Err", val |-> BoxError("String", returned_value.val)]

----------------------------------------------------------------------------
(* The state of the host before anything is rendered or played *)

no_render == [pc |-> "idle"]
no_audio == [main |-> "idle"]

\* impl Default for BitmapSmoothing; no call of Text::render or of
\* CpalAudioBackend::new
HostIdle ==
    /\ smoothing = "Default"
    /\ render = no_render
    /\ audio = no_audio

----------------------------------------------------------------------------
(* Operations on the queue *)

NoCall == [fn |-> "none"]

QueueInit ==
    /\ action_queue = new_queue
    /\ nqueued = 0
    /\ returned = <<>>
    /\ removed = {}
    /\ executed = <<>>
    /\ dropped = <<>>
    /\ queued_log = <<>>
    /\ box = empty_boxes
    /\ version = 8
    /\ ncalls = 0
    /\ call = NoCall
    /\ HeapInit
    /\ HostIdle

\* a call of queue_actions(clip, action_type, is_unload)
QueueActions(clip, action_type, is_unload) ==
    /\ action_queue' = queue_actions(action_queue, clip, action_type, is_unload, nqueued + 1)
    /\ nqueued' = nqueued + 1
    /\ queued_log' = Append(queued_log, [clip |-> clip, action_type |-> action_type,
                                         is_unload |-> is_unload])
    /\ call' = [fn |-> "queue_actions", clip |-> clip, action_type |-> action_type,
                is_unload |-> is_unload, tag |-> nqueued + 1]
    /\ UNCHANGED <<returned, removed, executed, dropped, box, version, ncalls, heap_vars>>

\* a call of pop_action(); every Some it returns is logged with the number of
\* queue_actions calls made before it
PopAction ==
    LET r == pop_action(action_queue) IN
    /\ action_queue' = r.queue
    /\ returned' = IF r.action.some
                   THEN Append(returned, [action |-> r.action.val, at |-> nqueued])
                   ELSE returned
    /\ call' = [fn |-> "pop_action", ret |-> r.action]
    /\ UNCHANGED <<nqueued, removed, executed, dropped, queued_log, box, version, ncalls,
                   heap_vars>>

QueueNext ==
    \/ /\ nqueued < MaxQueued
       /\ \E action_type \in ActionTypes :
              QueueActions("clip1", action_type, FALSE)
    \/ PopAction

SpecQueue == QueueInit /\ [][QueueNext]_vars

----------------------------------------------------------------------------
(* The dispatcher that drains the queue at the end of a frame *)

DispatchTypes == {"Normal", "Construct"}

\* a display object is removed from the stage
RemoveClip(clip) ==
    /\ clip \notin removed
    /\ removed' = removed \cup {clip}
    /\ call' = [fn |-> "remove", clip |-> clip]
    /\ UNCHANGED <<action_queue, nqueued, returned, executed, dropped, queued_log,
                   box, version, ncalls, heap_vars>>

\* one round of the dispatch loop: pop an action, skip it when it is not an
\* unload action and its clip has been removed, run it otherwise
RunAction ==
    LET r == pop_action(action_queue) IN
    /\ r.action.some
    /\ action_queue' = r.queue
    /\ LET a == r.action.val
           entry == [action |-> a, clip_removed |-> a.clip \in removed]
       IN  IF ~a.is_unload /\ a.clip \in removed
           THEN dropped' = Append(dropped, entry) /\ UNCHANGED executed
           ELSE executed' = Append(executed, entry) /\ UNCHANGED dropped
    /\ call' = [fn |-> "run_action", ret |-> r.action]
    /\ UNCHANGED <<nqueued, returned, removed, queued_log, box, version, ncalls, heap_vars>>

DispatchNext ==
    \/ /\ nqueued < MaxDispatchQueued
       /\ \E clip \in Clips, action_type \in DispatchTypes, is_unload \in BOOLEAN :
              QueueActions(clip, action_type, is_unload)
    \/ \E clip \in Clips : RemoveClip(clip)
    \/ RunAction

SpecDispatch == QueueInit /\ [][DispatchNext]_vars

----------------------------------------------------------------------------
(* Properties of the queue *)

RangeOf(s) == {s[i] : i \in DOMAIN s}

\* every action now held in a bucket
Queued == UNION {RangeOf(action_queue[i]) : i \in DOMAIN action_queue}

NonEmptyBuckets == {i \in DOMAIN action_queue : action_queue[i] # <<>>}

\* what a call of pop_action has to do in the current state
PopContract ==
    IF NonEmptyBuckets = {}
    THEN /\ call'.ret = None
         /\ action_queue' = action_queue
    ELSE LET top == CHOOSE i \in NonEmptyBuckets : \A j \in NonEmptyBuckets : j <= i
         IN  /\ call'.ret = Some(Head(action_queue[top]))
             /\ action_queue' = [action_queue EXCEPT ![top] = Tail(@)]

\* actions of one priority are returned in the order they were enqueued
ReturnedFifo ==
    \A i, j \in DOMAIN returned :
        (/\ i < j
         /\ priority(returned[i].action.action_type)
                = priority(returned[j].action.action_type))
        => returned[i].action.tag < returned[j].action.tag

\* Normal A, Construct B, Initialize C, Normal D were enqueued and then four
\* pops were made
ScenarioDone ==
    /\ queued_log = << [clip |-> "clip1", action_type |-> "Normal", is_unload |-> FALSE],
                       [clip |-> "clip1", action_type |-> "Construct", is_unload |-> FALSE],
                       [clip |-> "clip1", action_type |-> "Initialize", is_unload |-> FALSE],
                       [clip |-> "clip1", action_type |-> "Normal", is_unload |-> FALSE] >>
    /\ Len(returned) = 4
    /\ \A i \in DOMAIN returned : returned[i].at = 4

ReturnedTags == [i \in DOMAIN returned |-> returned[i].action.tag]

\* C1: pop_action returns the front element of the highest-priority non-empty
\* bucket and removes exactly it; within a bucket the elements come out in the
\* order they were enqueued; Normal A, Construct B, Initialize C, Normal D and
\* then four pops give C, B, A, D.
C1_PopHighestFront ==
    /\ [][call'.fn = "pop_action" => PopContract]_vars
    /\ [] ReturnedFifo
    /\ [] (ScenarioDone => ReturnedTags = <<3, 2, 1, 4>>)

C1_Witness == ScenarioDone /\ ReturnedTags = <<3, 2, 1, 4>>

\* C2: an action A of priority p is returned only after every action of
\* priority >= p that was enqueued before A has been returned.
C2_EarlierFirst ==
    \A i \in DOMAIN returned :
        LET a == returned[i].action IN
        \A b \in Queued \cup {returned[j].action : j \in DOMAIN returned} :
            (b.tag < a.tag /\ priority(b.action_type) >= priority(a.action_type))
            => \E j \in 1..(i - 1) : returned[j].action = b

\* a Construct enqueued after two Normals is returned while both are pending,
\* and a later Normal waits for the earlier ones
C2_Witness ==
    /\ Len(returned) >= 3
    /\ returned[1].action.action_type = "Construct"
    /\ returned[1].action.tag = 3
    /\ returned[2].action.tag = 1
    /\ returned[3].action.tag = 2

\* C3: an action queued with is_unload true is run even when its clip has been
\* removed since; an action queued with is_unload false whose clip is off the
\* stage when it is dispatched is dropped and never run.
C3_UnloadRetained ==
    /\ \A i \in DOMAIN executed :
           LET e == executed[i]
               asked == queued_log[e.action.tag]
           IN  /\ e.action.clip = asked.clip
               /\ asked.is_unload \/ ~e.clip_removed
    /\ \A i \in DOMAIN dropped :
           LET e == dropped[i]
               asked == queued_log[e.action.tag]
           IN  /\ e.action.clip = asked.clip
               /\ ~asked.is_unload
               /\ e.clip_removed

\* an unload action ran although its clip had been removed, and another
\* action of a removed clip was dropped
C3_Witness ==
    /\ \E i \in DOMAIN executed :
           executed[i].action.is_unload /\ executed[i].clip_removed
    /\ \E i \in DOMAIN dropped :
           ~dropped[i].action.is_unload /\ dropped[i].clip_removed

----------------------------------------------------------------------------
(* Calls of the native functions of Boolean and Number *)

queue_vars == <<action_queue, nqueued, returned, removed, executed, dropped, queued_log>>

\* the receivers and the argument lists of the calls
Receivers == {"boolean_box", "number_box", "plain"}

ArgValues ==
    {Undefined, Null, Bool(TRUE), Bool(FALSE),
     Number(Whole(0)), Number(Whole(1)), Number(Half(0)), Number(NaN),
     String(<<>>), String(<<"t", "r", "u", "e">>), String(<<"T", "r", "u", "e">>),
     String(<<"0">>), String(<<"1", "6">>), String(<<"a">>),
     Object("plain"), Object("failing"), Object("number_box"), Object("boolean_box")}

ArgLists ==
    {<<>>} \cup {<<v>> : v \in ArgValues}
           \cup {<<Number(Whole(1)), Number(Whole(0))>>, <<Undefined, Bool(TRUE)>>}

\* the record of a call: the function, its inputs, the boxes before it and what
\* it returned
Called(fn, this, args, r) ==
    [fn |-> fn, this |-> this, args |-> args, before |-> box, ret |-> r.ret,
     radix |-> r.radix, idx |-> r.idx]

Native(fn, this, args, r) ==
    /\ ncalls < MaxCalls
    /\ ncalls' = ncalls + 1
    /\ box' = r.box
    /\ call' = Called(fn, this, args, r)
    /\ UNCHANGED <<queue_vars, version, heap_vars>>

CallBoolean(this, args) ==
    Native("boolean", this, args, boolean(box, version, this, args))

CallBooleanToString(this, args) ==
    Native("boolean_to_string", this, args, boolean_to_string(box, version, this, args))

CallBooleanValueOf(this, args) ==
    Native("boolean_value_of", this, args, boolean_value_of(box, version, this, args))

CallNumber(this, args) ==
    Native("number", this, args, number(box, version, this, args))

CallNumberValueOf(this, args) ==
    Native("number_value_of", this, args, number_value_of(box, version, this, args))

CallNumberToString(this, args, overflow_checks) ==
    Native("number_to_string", this, args,
           number_to_string(box, version, this, args, overflow_checks))

ObjInit ==
    /\ action_queue = new_queue
    /\ nqueued = 0
    /\ returned = <<>>
    /\ removed = {}
    /\ executed = <<>>
    /\ dropped = <<>>
    /\ queued_log = <<>>
    /\ box = empty_boxes
    /\ version \in {6, 8}
    /\ ncalls = 0
    /\ call = NoCall
    /\ HeapInit
    /\ HostIdle

ObjNext ==
    \E this \in Receivers, args \in ArgLists :
        \/ CallBoolean(this, args)
        \/ CallBooleanToString(this, args)
        \/ CallBooleanValueOf(this, args)
        \/ CallNumber(this, args)
        \/ CallNumberValueOf(this, args)
        \/ \E overflow_checks \in BOOLEAN : CallNumberToString(this, args, overflow_checks)

SpecObj == ObjInit /\ [][ObjNext]_vars

----------------------------------------------------------------------------
(* Number.prototype.toString over many receivers and radixes *)

\* the finite and non-finite values boxed by `new Number(x)`
NumInputs ==
    {Whole(i) : i \in (0 - MaxSmall)..MaxSmall}
        \cup {Half(i) : i \in {0 - 255, 0 - 2, 0 - 1, 0, 1, 2, 16, 255}}
        \cup {Whole(255), Whole(0 - 255), Whole(1295), Whole(1296), Whole(0 - 1296),
              Whole(65535), Fin(FALSE, 1, 0, FALSE), Fin(TRUE, 1, 0, FALSE),
              Fin(FALSE, 32767, 65535, FALSE), Fin(FALSE, 32767, 65535, TRUE),
              Fin(FALSE, 32768, 0, FALSE), Fin(TRUE, 32768, 0, FALSE),
              Fin(TRUE, 32768, 0, TRUE), Fin(TRUE, 32768, 1, FALSE),
              Fin(TRUE, 32767, 65535, FALSE),
              Fin(FALSE, 65535, 65535, FALSE), Fin(FALSE, 65536, 0, FALSE),
              Fin(FALSE, 65536, 255, FALSE), Fin(TRUE, 65536, 0, FALSE),
              Fin(TRUE, 65536, 255, TRUE), Fin(FALSE, 98304, 0, FALSE),
              NaN, Inf(FALSE), Inf(TRUE)}

RadixArgLists ==
    {<<>>, <<Undefined>>, <<Null>>, <<Bool(TRUE)>>, <<String(<<"1", "6">>)>>,
     <<String(<<"a">>)>>, <<Object("plain")>>, <<Object("failing")>>,
     <<Number(NaN)>>, <<Number(Inf(FALSE))>>, <<Number(Inf(TRUE))>>,
     <<Number(Whole(0 - 16))>>, <<Number(Fin(FALSE, 1, 16, FALSE))>>,
     <<Number(Whole(16)), Number(Whole(2))>>}
        \cup {<<Number(Whole(r))>> : r \in 0..38}
        \cup {<<Number(Half(r))>> : r \in {1, 2, 9, 10, 16, 35, 36}}

NumNext ==
    \/ /\ ncalls = 0
       /\ \E x \in NumInputs : CallNumber("number_box", <<Number(x)>>)
    \/ \E args \in RadixArgLists, overflow_checks \in BOOLEAN :
           CallNumberToString("number_box", args, overflow_checks)

SpecNum == ObjInit /\ [][NumNext]_vars

----------------------------------------------------------------------------
(* The built-in objects and the script code that stores to them *)

\* the names and the value that script code stores and deletes
ScriptNames ==
    {"MAX_VALUE", "MIN_VALUE", "NaN", "NEGATIVE_INFINITY", "POSITIVE_INFINITY",
     "toString", "valueOf", "charAt", "x"}
ScriptValues == {String(<<"a">>)}

\* a built-in object is created with the slots its module defines
Create(object, slots) ==
    /\ ~props[object].created
    /\ props' = [props EXCEPT ![object] = [created |-> TRUE, slots |-> slots]]
    /\ call' = [fn |-> "create", this |-> object]
    /\ UNCHANGED <<queue_vars, box, version, ncalls, errors, contexts, roots,
                   smoothing, render, audio>>

\* script code stores to or deletes a property of a built-in object
Script(fn, object, name, slots) ==
    /\ props[object].created
    /\ ncalls < MaxScriptOps
    /\ ncalls' = ncalls + 1
    /\ props' = [props EXCEPT ![object].slots = slots]
    /\ call' = [fn |-> fn, this |-> object, name |-> name, before |-> props[object].slots]
    /\ UNCHANGED <<queue_vars, box, version, errors, contexts, roots,
                   smoothing, render, audio>>

ScriptSet(object, name, value) ==
    Script("set", object, name, set(props[object].slots, name, value))

ScriptDelete(object, name) ==
    Script("delete", object, name, delete(props[object].slots, name))

PropsNext ==
    \/ Create("Number", create_number_object)
    \/ Create("Number.prototype", number_create_proto)
    \/ Create("Boolean.prototype", boolean_create_proto)
    \/ Create("String.prototype", string_create_proto)
    \/ \E object \in BuiltIns, name \in ScriptNames :
           \/ \E value \in ScriptValues : ScriptSet(object, name, value)
           \/ ScriptDelete(object, name)

PropsInit == ObjInit /\ version = 8

SpecProps == PropsInit /\ [][PropsNext]_vars

----------------------------------------------------------------------------
(* Allocation of error objects *)

ErrorDefs == {ERROR_1000, ERROR_1001}

\* the arguments of `new Error(message, id)`
ErrorArgLists ==
    {<<>>, <<Undefined>>, <<String(<<"a">>)>>, <<Object("failing")>>,
     <<String(<<"a">>), Number(Whole(7))>>, <<String(<<"7">>), String(<<"a">>)>>,
     <<Number(Whole(7)), Number(Half(0 - 7))>>,
     <<Null, Number(Fin(FALSE, 65536, 7, FALSE))>>,
     <<String(<<"a">>), Object("failing")>>, <<Object("failing"), Object("failing")>>,
     <<Object("plain"), Object("plain")>>}

\* the prototypes an error object is given: none, or an error object
BaseProtos == {None} \cup {Some(object) : object \in DOMAIN errors}

Allocation(fn, inputs, r) ==
    /\ Len(errors) < MaxErrors
    /\ errors' = r.heap
    /\ call' = [fn |-> fn, inputs |-> inputs, before |-> errors, ret |-> r.ret]
    /\ UNCHANGED <<queue_vars, box, version, ncalls, props, contexts, roots,
                   smoothing, render, audio>>

FromErrorDef(base_proto, error_def) ==
    Allocation("from_error_def", [base_proto |-> base_proto, error_def |-> error_def],
               from_error_def(errors, base_proto, error_def))

Derive(self) ==
    Allocation("derive", [self |-> self, args |-> <<>>], derive(errors, self, <<>>))

Construct(self, args) ==
    Allocation("construct", [self |-> self, args |-> args], construct(errors, self, args))

ErrorNext ==
    \/ \E base_proto \in BaseProtos, error_def \in ErrorDefs :
           FromErrorDef(base_proto, error_def)
    \/ \E self \in DOMAIN errors : Derive(self)
    \/ \E self \in DOMAIN errors, args \in ErrorArgLists : Construct(self, args)

SpecError == PropsInit /\ [][ErrorNext]_vars

----------------------------------------------------------------------------
(* Reborrowing an UpdateContext and using it *)

\* the last call that wrote through a context
NoWrite == [fn |-> "none", ctx |-> 0, value |-> "default", tag |-> 0]
LastWrite == IF call.fn = "none" THEN NoWrite ELSE call.last_write

\* `ctx.reborrow()` of the context that can be used
Reborrow(i) ==
    /\ usable(contexts, i)
    /\ Len(contexts) < MaxContexts
    /\ contexts' = Append(contexts, reborrow(contexts[i]))
    /\ call' = [fn |-> "reborrow", ctx |-> i, last_write |-> LastWrite]
    /\ UNCHANGED <<queue_vars, box, version, props, errors, ncalls, roots,
                   smoothing, render, audio>>

\* the reborrowed context falls out of scope
DropContext ==
    /\ Len(contexts) > 1
    /\ contexts' = SubSeq(contexts, 1, Len(contexts) - 1)
    /\ call' = [fn |-> "drop", ctx |-> Len(contexts), last_write |-> LastWrite]
    /\ UNCHANGED <<queue_vars, box, version, props, errors, ncalls, roots,
                   smoothing, render, audio>>

\* a call of a method that writes through context i
Write(fn, i, value, mem) ==
    /\ usable(contexts, i)
    /\ ncalls < MaxCalls
    /\ ncalls' = ncalls + 1
    /\ roots' = mem
    /\ call' = [fn |-> fn, ctx |-> i,
                last_write |-> [fn |-> fn, ctx |-> i, value |-> value, tag |-> ncalls + 1]]
    /\ UNCHANGED <<queue_vars, box, version, props, errors, contexts,
                   smoothing, render, audio>>

SetGlobalSoundTransform(i, sound_transform) ==
    Write("set_global_sound_transform", i, sound_transform,
          set_global_sound_transform(roots, contexts[i], sound_transform))

SetSoundTransformsDirty(i) ==
    Write("set_sound_transforms_dirty", i, "default",
          set_sound_transforms_dirty(roots, contexts[i]))

UpdateSounds(i, finished) ==
    Write(IF finished THEN "update_sounds" ELSE "update_sounds_idle", i, "default",
          update_sounds(roots, contexts[i], finished, ncalls + 1))

ContextNext ==
    \E i \in DOMAIN contexts :
        \/ Reborrow(i)
        \/ DropContext
        \/ \E sound_transform \in SoundTransforms :
               SetGlobalSoundTransform(i, sound_transform)
        \/ SetSoundTransformsDirty(i)
        \/ \E finished \in BOOLEAN : UpdateSounds(i, finished)

SpecContext == PropsInit /\ [][ContextNext]_vars

----------------------------------------------------------------------------
(* Parsing and printing the BitmapSmoothing option *)

\* the state in which the other specifications start, without the host
CoreInit ==
    /\ action_queue = new_queue
    /\ nqueued = 0
    /\ returned = <<>>
    /\ removed = {}
    /\ executed = <<>>
    /\ dropped = <<>>
    /\ queued_log = <<>>
    /\ box = empty_boxes
    /\ version = 8
    /\ ncalls = 0
    /\ call = NoCall
    /\ HeapInit

\* the strings given to from_str
SmoothingStrings ==
    {"default", "always", "never", "n.ever", "", "Default", "Always", "Never", "DEFAULT",
     "ALWAYS", "NEVER", " never", "never ", "neve", "nevers", "ever", "n-ever", "defaul",
     "defaults", "alway", "always!", "true", "false", "on", "off", "auto", "none", "0",
     "1", "smooth"}

\* `s.parse::<BitmapSmoothing>()`, the option taking the value when it is Ok;
\* printed tells the variant whose to_string gave s, if the last call did
FromStr(s) ==
    LET r == smoothing_from_str(s) IN
    /\ ncalls < MaxCalls
    /\ ncalls' = ncalls + 1
    /\ smoothing' = IF r.kind = "Ok" THEN r.val ELSE smoothing
    /\ call' = [fn |-> "from_str", s |-> s, ret |-> r,
                printed |-> IF call.fn = "to_string" /\ call.ret = s
                            THEN Some(call.self) ELSE None]
    /\ UNCHANGED <<queue_vars, box, version, props, errors, contexts, roots, render, audio>>

\* `smoothing.to_string()`
PrintSmoothing ==
    /\ ncalls < MaxCalls
    /\ ncalls' = ncalls + 1
    /\ call' = [fn |-> "to_string", self |-> smoothing,
                ret |-> smoothing_to_string(smoothing)]
    /\ UNCHANGED <<queue_vars, box, version, props, errors, contexts, roots, smoothing,
                   render, audio>>

SmoothingNext ==
    \/ \E s \in SmoothingStrings : FromStr(s)
    \/ call.fn = "to_string" /\ FromStr(call.ret)
    \/ PrintSmoothing

\* the option holds any of its values
SmoothingInit ==
    /\ CoreInit
    /\ smoothing \in BitmapSmoothings
    /\ render = no_render
    /\ audio = no_audio

SpecSmoothing == SmoothingInit /\ [][SmoothingNext]_vars

----------------------------------------------------------------------------
(* A call of Text::render *)

\* the glyph entries of a text block: the index of each glyph in its font
GlyphLists == UNION {[1..n -> 0..1] : n \in 0..MaxGlyphs}

\* the text blocks: the font a block names, if it names one, and its
\* glyphs; offsets, colour and height do not reach the transform stack
TextBlocks == {[font_id |-> f, glyphs |-> gs] : f \in {None, Some(1), Some(2)}, gs \in GlyphLists}

\* render is entered with the transforms of the parents on the stack, on a
\* text of nblocks blocks; font_id starts at 0
RenderInit ==
    /\ CoreInit
    /\ smoothing = "Default"
    /\ audio = no_audio
    /\ \E depth \in 1..2, nblocks \in 0..MaxBlocks :
           render = [pc |-> "push_self", entry |-> [i \in 1..depth |-> "parent"],
                     stack |-> [i \in 1..depth |-> "parent"], nblocks |-> nblocks,
                     b |-> 0, font_id |-> 0, font |-> None, glyphs |-> <<>>, g |-> 0,
                     drawn |-> 0, no_font |-> FALSE, no_glyph |-> FALSE]

RenderStep(r) ==
    /\ render' = r
    /\ UNCHANGED <<queue_vars, box, version, ncalls, call, props, errors, contexts, roots,
                   smoothing, audio>>

\* text.rs:49, `context.transform_stack.push(&*self.transform())`
PushSelf ==
    /\ render.pc = "push_self"
    /\ RenderStep([render EXCEPT !.pc = "push_text",
                                 !.stack = transform_stack_push(@, "self")])

\* text.rs:50, the push of the text transform
PushText ==
    /\ render.pc = "push_text"
    /\ RenderStep([render EXCEPT !.pc = "block",
                                 !.stack = transform_stack_push(@, "text")])

\* text.rs:65-73, the head of `for block in text_blocks`: the block sets
\* font_id if it names a font, and its glyphs are visited if the library
\* has the font
NextBlock ==
    /\ render.pc = "block"
    /\ IF render.b = render.nblocks
       THEN RenderStep([render EXCEPT !.pc = "pop_text"])
       ELSE \E block \in TextBlocks :
                LET font_id == IF block.font_id.some THEN block.font_id.val
                               ELSE render.font_id
                    font == get_font(font_id)
                IN  RenderStep([render EXCEPT
                        !.b = @ + 1, !.font_id = font_id, !.font = font,
                        !.glyphs = block.glyphs, !.g = 0,
                        !.pc = IF font.some THEN "glyph" ELSE "block",
                        !.no_font = @ \/ ~font.some])

\* text.rs:82-84, the head of `for c in &block.glyphs`: a glyph the font has
\* is pushed, one it has not is passed over
NextGlyph ==
    /\ render.pc = "glyph"
    /\ IF render.g = Len(render.glyphs)
       THEN RenderStep([render EXCEPT !.pc = "block"])
       ELSE LET glyph == get_glyph(render.font.val, render.glyphs[render.g + 1]) IN
            IF glyph.some
            THEN RenderStep([render EXCEPT !.g = @ + 1, !.pc = "render_shape",
                                !.stack = transform_stack_push(@, "glyph")])
            ELSE RenderStep([render EXCEPT !.g = @ + 1, !.no_glyph = TRUE])

\* text.rs:85-87, `context.renderer.render_shape(..)`
RenderShape ==
    /\ render.pc = "render_shape"
    /\ RenderStep([render EXCEPT !.pc = "pop_glyph", !.drawn = @ + 1])

\* the glyph left on the stack
PopGlyphSkipped ==
    /\ render.pc = "pop_glyph"
    /\ RenderStep([render EXCEPT !.pc = "glyph"])

\* text.rs:88-89, the pop after the glyph, and its advance
PopGlyph ==
    /\ render.pc = "pop_glyph"
    /\ RenderStep([render EXCEPT !.pc = "glyph", !.stack = transform_stack_pop(@)])

\* text.rs:94
PopText ==
    /\ render.pc = "pop_text"
    /\ RenderStep([render EXCEPT !.pc = "pop_self", !.stack = transform_stack_pop(@)])

\* text.rs:95, after which render returns
PopSelf ==
    /\ render.pc = "pop_self"
    /\ RenderStep([render EXCEPT !.pc = "done", !.stack = transform_stack_pop(@)])

RenderNext ==
    \/ PushSelf
    \/ PushText
    \/ NextBlock
    \/ NextGlyph
    \/ RenderShape
    \/ PopGlyph
    \/ PopText
    \/ PopSelf

SpecRender == RenderInit /\ [][RenderNext]_vars

----------------------------------------------------------------------------
(* A call of CpalAudioBackend::new *)

\* what the calls of cpal give on a host
AudioEnvs ==
    [device : {"ok", "err", "panic"}, config : {"ok", "err", "panic"},
     sample_format : {"F32", "I16", "U16"}, channels : {"ok", "err"},
     build : {"ok", "err", "panic"}, play : {"ok", "err", "panic"}]

\* new is called on some host; no thread of it runs yet
AudioInit ==
    /\ CoreInit
    /\ smoothing = "Default"
    /\ render = no_render
    /\ \E env \in AudioEnvs :
           audio = [main |-> "spawn", thread |-> "none", env |-> env,
                    thread_ret |-> [kind |-> "none"], ret |-> [kind |-> "none"]]

AudioStep(a) ==
    /\ audio' = a
    /\ UNCHANGED <<queue_vars, box, version, ncalls, call, props, errors, contexts, roots,
                   smoothing, render>>

\* audio.rs:30, `std::thread::spawn(..)`: the thread exists, and new goes on
\* to join
Spawn ==
    /\ audio.main = "spawn"
    /\ AudioStep([audio EXCEPT !.main = "join", !.thread = "spawned"])

\* the thread is scheduled and enters init
StartInit ==
    /\ audio.thread = "spawned"
    /\ AudioStep([audio EXCEPT !.thread = "running"])

\* audio.rs:30-32, the thread runs its closure to the end: it returns what
\* init returned, or unwinds
RunInit ==
    /\ audio.thread = "running"
    /\ LET r == init_thread(audio.env) IN
       AudioStep([audio EXCEPT
           !.thread = IF r.kind = "Panic" THEN "panicked" ELSE "finished",
           !.thread_ret = r])

\* join returning whether or not the thread has ended
JoinWithoutWaiting ==
    /\ audio.main = "join"
    /\ AudioStep([audio EXCEPT
           !.main = "returned",
           !.ret = join(audio.thread # "finished", audio.thread_ret)])

\* audio.rs:34-38, `match init_thread.join()`: join blocks until the thread
\* has ended; new returns what the match gives
Join ==
    /\ audio.main = "join"
    /\ audio.thread \in {"finished", "panicked"}
    /\ AudioStep([audio EXCEPT
           !.main = "returned",
           !.ret = join(audio.thread = "panicked", audio.thread_ret)])

AudioNext ==
    \/ Spawn
    \/ StartInit
    \/ RunInit
    \/ Join

SpecAudio == AudioInit /\ [][AudioNext]_vars

----------------------------------------------------------------------------
(* Properties of Boolean *)

TrueString == <<"t", "r", "u", "e">>
FalseString == <<"f", "a", "l", "s", "e">>

\* the first argument of the last call, if it has one
HasArg == call.args # <<>>
FirstArg == call.args[1]

\* C4: Boolean.prototype.toString on a boxed receiver returns the string
\* "true" or the string "false" according to the boxed value.
C4_ToStringIsString ==
    (/\ call.fn = "boolean_to_string"
     /\ call.this \in ValueObjects
     /\ call.before[call.this].t = "Bool")
    => call.ret = Ok(String(IF call.before[call.this].b THEN TrueString ELSE FalseString))

\* C5: Boolean.prototype.valueOf on a boxed receiver returns the Value stored
\* in the receiver's box, whatever the arguments.
C5_ValueOfReturnsBox ==
    (call.fn = "boolean_value_of" /\ call.this \in ValueObjects)
    => call.ret = Ok(call.before[call.this])

\* C6: the Boolean constructor computes as_bool(version) of its first argument,
\* false without one; it replaces the box of a ValueObject receiver with that
\* Bool and changes nothing for any other receiver; it returns that Bool.
C6_BooleanConstructor ==
    call.fn = "boolean" =>
        LET value == Bool(IF HasArg THEN as_bool(FirstArg, version) ELSE FALSE)
        IN  /\ call.ret = Ok(value)
            /\ call.this \in ValueObjects
                   => box = [call.before EXCEPT ![call.this] = value]
            /\ call.this \notin ValueObjects => box = call.before

\* at version 6, new Boolean("True") on a receiver boxing something else
C6_Witness ==
    /\ call.fn = "boolean"
    /\ version = 6
    /\ call.this = "boolean_box"
    /\ HasArg
    /\ FirstArg = String(<<"T", "r", "u", "e">>)
    /\ call.before["boolean_box"] = Bool(FALSE)
    /\ box["boolean_box"] = Bool(TRUE)
    /\ call.ret = Ok(Bool(TRUE))

----------------------------------------------------------------------------
(* Properties of Number *)

\* C7: the Number constructor computes as_number of its first argument, 0.0
\* without one; it replaces the box of a ValueObject receiver with that number
\* and changes no other object; it returns the number; when as_number fails it
\* returns the error and leaves the receiver's box as it was.
C7_NumberConstructor ==
    call.fn = "number" =>
        LET value == IF HasArg
                     THEN as_number(call.before, version, FirstArg)
                     ELSE NumOk(Whole(0))
        IN  IF value.kind = "Ok"
            THEN /\ call.ret = Ok(Number(value.num))
                 /\ call.this \in ValueObjects
                        => box = [call.before EXCEPT ![call.this] = Number(value.num)]
                 /\ call.this \notin ValueObjects => box = call.before
            ELSE /\ call.ret = Err
                 /\ box = call.before

\* the coercion of the argument fails on a receiver that boxes a number
C7_Witness ==
    /\ call.fn = "number"
    /\ call.this = "number_box"
    /\ HasArg
    /\ FirstArg = Object("failing")
    /\ call.ret = Err
    /\ call.before["number_box"] = Number(Whole(1))
    /\ box["number_box"] = Number(Whole(1))

\* the receiver of the last call as a number, and the coercion of its radix
\* argument
ReceiverNumber == as_number(call.before, version, Object(call.this))
RadixNumber == as_number(call.before, version, IF HasArg THEN FirstArg ELSE Undefined)

\* twice the value of a finite number below 2^16 in magnitude
Twice(x) == (IF x.neg THEN 0 - 1 ELSE 1) * (2 * x.lo + (IF x.half THEN 1 ELSE 0))

\* the radix argument coerces to a number within [2, 36]
RadixInRange ==
    LET r == RadixNumber.num
    IN  is_finite(r) /\ r.hi = 0 /\ 4 <= Twice(r) /\ Twice(r) <= 72

\* the radix the claims speak of: the whole part of a radix argument within
\* [2, 36], and 10 otherwise
ClaimedRadix == IF RadixInRange THEN Twice(RadixNumber.num) \div 2 ELSE 10

\* the last call was toString with a receiver and a radix that coerce
ToStringCalled ==
    /\ call.fn = "number_to_string"
    /\ ReceiverNumber.kind = "Ok"
    /\ RadixNumber.kind = "Ok"

\* the value of a digit of the alphabet 0-9a-z, -1 for any other character
AlphabetValue(c) ==
    IF \E i \in DOMAIN DIGITS : DIGITS[i] = c
    THEN (CHOOSE i \in DOMAIN DIGITS : DIGITS[i] = c) - 1
    ELSE 0 - 1

ParseFailure == [ok |-> FALSE, val |-> 0]

\* the negated value of a string of base-r digits, read most significant
\* digit first, when it fits an i32
RECURSIVE ParseDigits(_, _, _)
ParseDigits(s, r, acc) ==
    IF s = <<>> THEN [ok |-> TRUE, val |-> acc]
    ELSE LET d == AlphabetValue(Head(s)) IN
         IF d < 0 \/ d >= r THEN ParseFailure
         ELSE IF acc >= 0 - (I32_MAX \div r)
         THEN IF acc * r >= I32_MIN + d
              THEN ParseDigits(Tail(s), r, acc * r - d)
              ELSE ParseFailure
         ELSE IF acc = 0 - (I32_MAX \div r) - 1 /\ I32_MAX % r = r - 1 /\ d = 0
         THEN ParseDigits(Tail(s), r, I32_MIN)
         ELSE ParseFailure

\* a string parsed as a signed integer in base r
ParseSigned(s, r) ==
    LET neg == s # <<>> /\ Head(s) = "-"
        body == IF neg THEN Tail(s) ELSE s
        p == IF body = <<>> THEN ParseFailure ELSE ParseDigits(body, r, 0)
    IN  IF ~p.ok THEN ParseFailure
        ELSE IF neg THEN p
        ELSE IF p.val = I32_MIN THEN ParseFailure
        ELSE [ok |-> TRUE, val |-> 0 - p.val]

\* s is the base-r representation of n: "0" for 0, else the digits of |n| over
\* 0-9a-z without leading zeros, after a '-' exactly when n < 0
IsRepresentation(s, r, n) ==
    IF n = 0 THEN s = <<"0">>
    ELSE /\ s # <<>>
         /\ (Head(s) = "-") <=> (n < 0)
         /\ LET body == IF Head(s) = "-" THEN Tail(s) ELSE s
            IN  /\ body # <<>>
                /\ Head(body) # "0"
                /\ \A i \in DOMAIN body : AlphabetValue(body[i]) \in 0..(r - 1)
         /\ ParseSigned(s, r) = [ok |-> TRUE, val |-> n]

\* toString was called on a finite receiver with a radix in [2, 36] other
\* than 10
FiniteOtherRadix ==
    /\ ToStringCalled
    /\ is_finite(ReceiverNumber.num)
    /\ ClaimedRadix # 10

\* C8: for a finite receiver x and a radix r in [2, 36] other than 10,
\* toString returns the base-r representation of n = f64_to_wrapping_i32(x)
\* over 0-9a-z, most significant digit first, without leading zeros, after a
\* '-' exactly when n < 0, and "0" when n = 0; every digit index used is below
\* 36.
C8_RadixRepresentation ==
    FiniteOtherRadix =>
        /\ call.ret.kind = "Ok"
        /\ call.ret.val.t = "String"
        /\ IsRepresentation(call.ret.val.s, ClaimedRadix,
                            f64_to_wrapping_i32(ReceiverNumber.num))
        /\ \A i \in DOMAIN call.idx : call.idx[i] < 36

\* what remains of C8 whenever the call returns
C8_WhenReturned ==
    (FiniteOtherRadix /\ call.ret.kind # "Panic") =>
        /\ call.ret.kind = "Ok"
        /\ call.ret.val.t = "String"
        /\ IsRepresentation(call.ret.val.s, ClaimedRadix,
                            f64_to_wrapping_i32(ReceiverNumber.num))
        /\ \A i \in DOMAIN call.idx : call.idx[i] < 36

\* the string toString returned, parsed in the radix of the call, is the
\* wrapped receiver
ParsesBack ==
    ParseSigned(call.ret.val.s, ClaimedRadix)
        = [ok |-> TRUE, val |-> f64_to_wrapping_i32(ReceiverNumber.num)]

\* toString(r), r in [2, 36], returned a string for a finite receiver
FiniteReturned ==
    /\ ToStringCalled
    /\ HasArg
    /\ RadixInRange
    /\ is_finite(ReceiverNumber.num)
    /\ call.ret.kind = "Ok"

WholeInI32(x) ==
    /\ ~x.half
    /\ \/ x.hi < 32768
       \/ x.neg /\ x.hi = 32768 /\ x.lo = 0

C10_RadixDefault ==
    ToStringCalled =>
        /\ call.radix = ClaimedRadix
        /\ (~HasArg \/ ~RadixInRange) =>
               /\ call.radix = 10
               /\ call.ret = Ok(String(coerce_to_string(Number(ReceiverNumber.num))))

\* 2 and 36 are used as they are, 37, NaN and no argument give the decimal
C10_Witness ==
    /\ ToStringCalled
    /\ ReceiverNumber.num = Whole(37)
    /\ \/ HasArg /\ FirstArg = Number(Whole(36)) /\ call.ret = Ok(String(<<"1", "1">>))
       \/ HasArg /\ FirstArg = Number(Whole(37)) /\ call.ret = Ok(String(<<"3", "7">>))
       \/ ~HasArg /\ call.ret = Ok(String(<<"3", "7">>))

----------------------------------------------------------------------------
(* Number.prototype.toString of NaN and the infinities *)

NonFiniteReceiver == ToStringCalled /\ ~is_finite(ReceiverNumber.num)

NanOfRadix2 ==
    <<"-", "/", "0", "0", "0", "0", "0", "0", "0", "0", "0", "0", "0", "0", "0", "0", "0",
      "0", "0", "0", "0", "0", "0", "0", "0", "0", "0", "0", "0", "0", "0", "0", "0">>

\* C11: for a receiver that is NaN or an infinity and a radix r within
\* [2, 36] other than 10, toString returns the entry r - 2 of TO_STRING_NANS,
\* an index the table of 35 entries always has; for r = 2 that is "-/" and
\* thirty-one zeros; at radix 10 the table is not read and the decimal
\* string is returned.
C11_NonFiniteTable ==
    /\ Len(TO_STRING_NANS) = 36 - 2 + 1
    /\ NonFiniteReceiver =>
           IF ClaimedRadix # 10
           THEN /\ call.idx = <<ClaimedRadix - 2>>
                /\ ClaimedRadix - 2 \in 0..(Len(TO_STRING_NANS) - 1)
                /\ call.ret = Ok(String(TO_STRING_NANS[ClaimedRadix - 2 + 1]))
                /\ ClaimedRadix = 2 => call.ret.val.s = NanOfRadix2
           ELSE /\ call.idx = <<>>
                /\ call.ret = Ok(String(coerce_to_string(Number(ReceiverNumber.num))))

\* NaN at radix 2, -Infinity at radix 36, and +Infinity at radix 10
C11_Witness ==
    /\ NonFiniteReceiver
    /\ HasArg
    /\ \/ /\ ReceiverNumber.num = NaN /\ FirstArg = Number(Whole(2))
          /\ call.ret = Ok(String(NanOfRadix2))
       \/ /\ ReceiverNumber.num = Inf(TRUE) /\ FirstArg = Number(Whole(36))
          /\ call.ret = Ok(String(TO_STRING_NANS[35]))
       \/ /\ ReceiverNumber.num = Inf(FALSE) /\ FirstArg = Number(Whole(10))
          /\ call.ret = Ok(String(<<"I", "n", "f", "i", "n", "i", "t", "y">>))

----------------------------------------------------------------------------
(* The properties of the built-in objects *)

AllAttributes == {DontDelete, ReadOnly, DontEnum}

\* the object has an own property of that name with exactly these attributes
HasSlot(object, name, attributes) ==
    /\ name \in DOMAIN props[object].slots
    /\ props[object].slots[name].attributes = attributes

\* the class constants of Number
NumberConstants ==
    {"MAX_VALUE", "MIN_VALUE", "NaN", "NEGATIVE_INFINITY", "POSITIVE_INFINITY"}
ConstantValue(name) ==
    CASE name = "MAX_VALUE" -> Number(F64_MAX)
      [] name = "MIN_VALUE" -> Number(F64_MIN)
      [] name = "NaN" -> Number(NaN)
      [] name = "NEGATIVE_INFINITY" -> Number(Inf(TRUE))
      [] name = "POSITIVE_INFINITY" -> Number(Inf(FALSE))

\* C12: once create_number_object has run, the Number constructor owns
\* MAX_VALUE, MIN_VALUE, NaN, NEGATIVE_INFINITY and POSITIVE_INFINITY, each
\* with exactly the attributes DontDelete, ReadOnly and DontEnum and with the
\* value it was defined with, whatever script code has stored or deleted
\* since.
C12_NumberConstants ==
    props["Number"].created =>
        \A name \in NumberConstants :
            /\ HasSlot("Number", name, AllAttributes)
            /\ props["Number"].slots[name].value = ConstantValue(name)

\* script code has stored to MAX_VALUE or deleted NaN, to no effect
C12_Witness ==
    /\ props["Number"].created
    /\ call.fn \in {"set", "delete"}
    /\ call.this = "Number"
    /\ \/ call.fn = "set" /\ call.name = "MAX_VALUE"
       \/ call.fn = "delete" /\ call.name = "NaN"
    /\ props["Number"].slots = call.before
    /\ props["Number"].slots["MAX_VALUE"].value = Number(F64_MAX)

\* the object has just been returned by the function that creates it
JustCreated(object) == call.fn = "create" /\ call.this = object

\* C13: the prototypes that create_proto of boolean.rs and of number.rs
\* return both have the properties toString and valueOf, each with exactly the
\* attributes DontEnum, DontDelete and ReadOnly.
C13_ProtoMethodAttributes ==
    \A object \in {"Boolean.prototype", "Number.prototype"} :
        JustCreated(object) =>
            /\ HasSlot(object, "toString", AllAttributes)
            /\ HasSlot(object, "valueOf", AllAttributes)

\* the names that String.prototype is said to have
StringMethods ==
    {"charAt", "charCodeAt", "concat", "fromCharCode", "indexOf", "lastIndexOf",
     "slice", "split", "substr", "substring", "toLowerCase", "toUpperCase"}

\* C14: the own properties of the String.prototype that create_proto of
\* string.rs returns are named exactly charAt, charCodeAt, concat,
\* fromCharCode, indexOf, lastIndexOf, slice, split, substr, substring,
\* toLowerCase and toUpperCase, each with exactly the attributes DontDelete,
\* ReadOnly and DontEnum.
C14_StringMethods ==
    JustCreated("String.prototype") =>
        /\ DOMAIN props["String.prototype"].slots = StringMethods
        /\ \A name \in StringMethods : HasSlot("String.prototype", name, AllAttributes)

----------------------------------------------------------------------------
(* Properties of the error objects *)

\* the object that the last call allocated
Allocated == errors[call.ret.val]

\* the arguments of the last construct, Undefined where absent
MessageArg == IF Len(call.inputs.args) >= 1 THEN call.inputs.args[1] ELSE Undefined
IdArg == IF Len(call.inputs.args) >= 2 THEN call.inputs.args[2] ELSE Undefined

ConstructFails ==
    \/ avm2_coerce_to_string(MessageArg).kind # "Ok"
    \/ avm2_coerce_to_i32(IdArg).kind # "Ok"

\* C15: from_error_def allocates an error object with the id, the name and
\* the message of the ErrorDef, 1000 and "Error" for the out-of-memory
\* definition, 1069 and "ReferenceError" for the property-not-found one;
\* construct allocates one whose message is the string coercion of args[0],
\* whose id is the i32 coercion of args[1], whose name is the receiver's and
\* whose prototype is the receiver, and when a coercion fails it returns the
\* error and allocates nothing.
C15_ErrorObjectFields ==
    /\ ERROR_1000.id = 1000 /\ ERROR_1000.name = <<"E", "r", "r", "o", "r">>
    /\ ERROR_1001.id = 1069
    /\ ERROR_1001.name = <<"R", "e", "f", "e", "r", "e", "n", "c", "e", "E", "r", "r", "o", "r">>
    /\ call.fn = "from_error_def" =>
           /\ call.ret = IntOk(Len(call.before) + 1)
           /\ errors = Append(call.before,
                              [base_proto |-> call.inputs.base_proto,
                               id |-> call.inputs.error_def.id,
                               name |-> call.inputs.error_def.name,
                               message |-> call.inputs.error_def.message])
    /\ call.fn = "construct" =>
           IF ConstructFails
           THEN call.ret = IntErr /\ errors = call.before
           ELSE /\ call.ret = IntOk(Len(call.before) + 1)
                /\ errors = Append(call.before,
                                   [base_proto |-> Some(call.inputs.self),
                                    id |-> avm2_coerce_to_i32(IdArg).val,
                                    name |-> call.before[call.inputs.self].name,
                                    message |-> avm2_coerce_to_string(MessageArg).val])

\* `new ReferenceError("a", 7)` on the object of the property-not-found
\* definition, and a construct whose id fails to coerce
C15_Witness ==
    /\ call.fn = "construct"
    /\ call.before[call.inputs.self].id = 1069
    /\ \/ /\ call.ret.kind = "Ok"
          /\ Allocated = [base_proto |-> Some(call.inputs.self), id |-> 7,
                          name |-> ERROR_1001.name, message |-> <<"a">>]
       \/ /\ call.inputs.args = <<String(<<"a">>), Object("failing")>>
          /\ call.ret = IntErr
          /\ errors = call.before

----------------------------------------------------------------------------
(* toString and valueOf of the prototypes, and their receivers *)

\* the last call was toString or valueOf of Boolean.prototype or of
\* Number.prototype on a ValueObject
AccessorCalled ==
    /\ call.fn \in {"boolean_to_string", "boolean_value_of",
                    "number_to_string", "number_value_of"}
    /\ call.this \in ValueObjects

\* C16: toString and valueOf of Boolean.prototype and of Number.prototype,
\* called on a ValueObject, leave the boxed value and every property as they
\* were; Number.prototype.valueOf returns the boxed value coerced to a number.
C16_AccessorsPure ==
    /\ [](AccessorCalled => box = call.before)
    /\ [](AccessorCalled /\ call.fn = "number_value_of" =>
              call.ret = Ok(Number(primitive_as_number(call.before[call.this]))))
    /\ [][AccessorCalled' => props' = props]_vars

\* valueOf of `new Number(1)` and of `new Boolean(true)` seen as a number
C16_Witness ==
    /\ AccessorCalled
    /\ call.fn = "number_value_of"
    /\ box = call.before
    /\ \/ call.this = "number_box" /\ box["number_box"] = Number(Whole(1))
          /\ call.ret = Ok(Number(Whole(1)))
       \/ call.this = "boolean_box" /\ box["boolean_box"] = Bool(TRUE)
          /\ call.ret = Ok(Number(Whole(1)))

\* C17: Boolean.prototype.toString called on an object that is not a
\* ValueObject returns Undefined, neither an error nor a string, and changes
\* nothing.
C17_ToStringNotBoxed ==
    (call.fn = "boolean_to_string" /\ call.this \notin ValueObjects) =>
        /\ call.ret = Ok(Undefined)
        /\ box = call.before

\* toString on a plain object after `new Boolean(true)` filled a box
C17_Witness ==
    /\ call.fn = "boolean_to_string"
    /\ call.this = "plain"
    /\ call.ret = Ok(Undefined)
    /\ box["boolean_box"] = Bool(TRUE)
    /\ box = call.before

----------------------------------------------------------------------------
(* Enqueuing between pops *)

\* the action that the last call of queue_actions enqueued, and the actions
\* that were pending when it was enqueued
Enqueued == QueuedActions(call.clip, call.action_type, call.is_unload, call.tag)
Pending == Queued \ {Enqueued}
PendingLower ==
    {b \in Pending : priority(b.action_type) < priority(Enqueued.action_type)}

\* a queue_actions call is followed at once by a pop_action call
PopAfterEnqueue == call.fn = "queue_actions" /\ call'.fn = "pop_action"

\* an action is returned only after every action of a higher priority that was
\* enqueued before that pop
HigherFirst ==
    \A i \in DOMAIN returned :
        LET b == returned[i].action IN
        \A a \in Queued \cup {returned[j].action : j \in DOMAIN returned} :
            (a.tag <= returned[i].at /\ priority(a.action_type) > priority(b.action_type))
            => \E j \in 1..(i - 1) : returned[j].action = a

\* enqueuing leaves what the earlier pops returned as it is
EnqueueKeepsReturned == call'.fn = "queue_actions" => returned' = returned

\* C18: an action enqueued while actions of a lower priority are pending is
\* returned by the very next pop_action, ahead of all pending actions of a
\* lower priority; enqueuing never reorders, removes or revokes what earlier
\* pops have returned.
C18_NextPopReturnsHigher ==
    /\ [][(PopAfterEnqueue /\ PendingLower # {}) => call'.ret = Some(Enqueued)]_vars
    /\ [] HigherFirst
    /\ [][EnqueueKeepsReturned]_vars

\* C18 as amended: the very next pop_action returns the enqueued action when
\* every pending action has a lower priority than it; in every case it is
\* returned ahead of all pending actions of a lower priority, and enqueuing
\* leaves what earlier pops returned as it is.
C18_NextPopAmended ==
    /\ [][(PopAfterEnqueue /\ PendingLower = Pending) => call'.ret = Some(Enqueued)]_vars
    /\ [] HigherFirst
    /\ [][EnqueueKeepsReturned]_vars

\* two Normals were enqueued, one was returned, then a Construct was enqueued
\* and the next pop returned it while the other Normal is pending
C18_Witness ==
    /\ call.fn = "pop_action"
    /\ Len(returned) = 2
    /\ returned[1].action.action_type = "Normal"
    /\ returned[1].at < returned[2].at
    /\ returned[2].action.action_type = "Construct"
    /\ returned[2].action.tag = nqueued
    /\ returned[2].at = nqueued
    /\ Queued # {}
    /\ \A b \in Queued : b.action_type = "Normal" /\ b.tag < nqueued

\* the priority that each action type is said to have
StaticPriority(action_type) ==
    CASE action_type = "Initialize" -> 2
      [] action_type = "Construct" -> 1
      [] action_type \in {"Normal", "Method", "NotifyListeners", "Callable2"} -> 0

\* C19: queue_actions appends the action to the bucket of the static priority
\* of its type, 2 for Initialize, 1 for Construct, 0 for Normal, Method,
\* NotifyListeners and Callable2, and leaves the other two buckets and the
\* elements already in that bucket as they are.
C19_EnqueueAtBack ==
    [][call'.fn = "queue_actions" =>
          LET p == StaticPriority(call'.action_type)
              action == QueuedActions(call'.clip, call'.action_type, call'.is_unload,
                                      call'.tag)
          IN  /\ action_queue'[p + 1] = Append(action_queue[p + 1], action)
              /\ \A i \in DOMAIN action_queue \ {p + 1} :
                     action_queue'[i] = action_queue[i]
              /\ DOMAIN action_queue' = DOMAIN action_queue]_vars

\* an Initialize was enqueued behind another one while the two other buckets
\* hold a Method and a Construct
C19_Witness ==
    /\ call.fn = "queue_actions"
    /\ call.action_type = "Initialize"
    /\ Len(action_queue[3]) = 2
    /\ action_queue[3][2].tag = call.tag
    /\ action_queue[3][1].tag < call.tag
    /\ Len(action_queue[2]) = 1 /\ action_queue[2][1].action_type = "Construct"
    /\ Len(action_queue[1]) = 1 /\ action_queue[1][1].action_type = "Method"

----------------------------------------------------------------------------
(* Reborrowed contexts *)

\* every live context refers to what the original context refers to
Aliases ==
    \A i \in DOMAIN contexts :
        /\ contexts[i].player_data = contexts[1].player_data
        /\ contexts[i].gc_data = contexts[1].gc_data
        /\ contexts[i].gc_context = contexts[1].gc_context

\* what was last written through a context is what every live context it was
\* reborrowed from sees, the original included
SeenThrough(self) ==
    LET root == roots[self.gc_data]
        queue == root.action_queue[priority("Method") + 1]
    IN  /\ LastWrite.fn = "set_global_sound_transform" =>
               global_sound_transform(roots, self) = LastWrite.value
        /\ LastWrite.fn = "set_sound_transforms_dirty" => root.sound_transforms_dirty
        /\ LastWrite.fn = "update_sounds" =>
               queue # <<>> /\ queue[Len(queue)].tag = LastWrite.tag

\* C20: the context that reborrow returns refers to the player_data, the
\* gc_data with its action queue, and the gc_context of the original; what is
\* changed through the reborrowed context is seen through the original when
\* the reborrow has ended; while the reborrowed context is live the original
\* is not used.
C20_ReborrowAliases ==
    /\ [] Aliases
    /\ [] (\A i \in DOMAIN contexts : SeenThrough(contexts[i]))
    /\ [][call'.fn \notin {"none", "drop"} => call'.ctx = Len(contexts)]_vars

\* the original is the only context left and sees the action that was
\* enqueued, or the transform that was set, through a reborrowed context
C20_Witness ==
    /\ call.fn = "drop"
    /\ Len(contexts) = 1
    /\ LastWrite.ctx > 1
    /\ \/ /\ LastWrite.fn = "update_sounds"
          /\ Len(roots[contexts[1].gc_data].action_queue[1]) = 1
       \/ /\ LastWrite.fn = "set_global_sound_transform"
          /\ LastWrite.value = "quiet"
          /\ global_sound_transform(roots, contexts[1]) = "quiet"

----------------------------------------------------------------------------
(* Conservation of the queued actions *)

\* the places that hold the action of the n-th queue_actions call: a position
\* of a bucket, or a position of what pop_action has returned
HeldAt(n) ==
    {h \in (DOMAIN action_queue) \X (1..nqueued) :
        h[2] \in DOMAIN action_queue[h[1]] /\ action_queue[h[1]][h[2]].tag = n}
ReturnedAt(n) == {k \in DOMAIN returned : returned[k].action.tag = n}

\* the action that the n-th queue_actions call was given
Asked(n) ==
    QueuedActions(queued_log[n].clip, queued_log[n].action_type,
                  queued_log[n].is_unload, n)

\* C21: after any calls of queue_actions and pop_action every enqueued action
\* is either held once in one of the buckets or has been returned once by
\* pop_action, never both and never twice, nothing else is held or returned,
\* and there are three buckets; pop_action returns None only when the three
\* buckets are empty and every enqueued action has been returned, and
\* otherwise returns an action that it took out of a bucket, so that None is
\* returned exactly for the empty queue, which it leaves as it was.
C21_Conservation ==
    /\ DOMAIN action_queue = 1..3
    /\ \A n \in 1..nqueued :
           /\ Cardinality(HeldAt(n)) + Cardinality(ReturnedAt(n)) = 1
           /\ \A h \in HeldAt(n) : action_queue[h[1]][h[2]] = Asked(n)
           /\ \A k \in ReturnedAt(n) : returned[k].action = Asked(n)
    /\ \A a \in Queued \cup {returned[k].action : k \in DOMAIN returned} :
           a.tag \in 1..nqueued
    /\ call.fn = "pop_action" =>
           /\ call.ret = None =>
                  /\ \A i \in DOMAIN action_queue : action_queue[i] = <<>>
                  /\ Len(returned) = nqueued
           /\ call.ret # None =>
                  /\ returned # <<>>
                  /\ call.ret = Some(returned[Len(returned)].action)

\* a pop of the emptied queue after actions of all three priorities went
\* through it
C21_Witness ==
    /\ call.fn = "pop_action"
    /\ call.ret = None
    /\ nqueued = 3
    /\ Len(returned) = 3
    /\ {returned[k].action.action_type : k \in DOMAIN returned}
           = {"Initialize", "Construct", "Method"}

----------------------------------------------------------------------------
(* The BitmapSmoothing option *)

\* C22: for each of Default, Always and Never, from_str of the string that
\* to_string gives returns Ok of that variant; from_str of any string other
\* than "default", "always" and "never" returns the error "Invalid bitmap
\* smoothing".
C22_SmoothingRoundTrip ==
    call.fn = "from_str" =>
        /\ call.printed.some => call.ret = [kind |-> "Ok", val |-> call.printed.val]
        /\ call.s \notin {"default", "always", "never"} =>
               call.ret = [kind |-> "Err", val |-> "Invalid bitmap smoothing"]

----------------------------------------------------------------------------
(* The negation in Number.prototype.toString *)

\* the receiver of the toString call, wrapped to 32 bits
WrappedReceiver == f64_to_wrapping_i32(ReceiverNumber.num)

\* the call returned '-' followed by the base-r digits of the magnitude of
\* the wrapped receiver
MinusThenMagnitude ==
    /\ call.ret.kind = "Ok"
    /\ call.ret.val.t = "String"
    /\ call.ret.val.s # <<>>
    /\ Head(call.ret.val.s) = "-"
    /\ Tail(call.ret.val.s) # <<>>
    /\ ParseDigits(Tail(call.ret.val.s), ClaimedRadix, 0)
           = [ok |-> TRUE, val |-> WrappedReceiver]

\* C23: in toString with a radix other than 10, `n = -n` never overflows:
\* for every finite receiver whose wrapped value is negative, -2^31 included,
\* the call completes and returns '-' followed by the base-r digits of the
\* magnitude.
C23_NegationNeverOverflows ==
    (FiniteOtherRadix /\ WrappedReceiver < 0) => MinusThenMagnitude

\* what remains of C23: the call panics at -2^31 only, and whenever it
\* returns it returns '-' and the magnitude
C23_WhenNotMinimum ==
    (FiniteOtherRadix /\ WrappedReceiver < 0) =>
        /\ call.ret.kind = "Panic" => WrappedReceiver = I32_MIN
        /\ call.ret.kind # "Panic" => MinusThenMagnitude

\* toString(r) returned for a negative wrapped receiver other than -2^31
C23_Negated ==
    /\ FiniteOtherRadix
    /\ WrappedReceiver < 0
    /\ WrappedReceiver # I32_MIN
    /\ MinusThenMagnitude

----------------------------------------------------------------------------
(* The transform stack in Text::render *)

\* the depth of the transform stack, counted from its depth at entry
Above == Len(render.stack) - Len(render.entry)

\* C24: Text::render leaves the transform stack at its entry depth for every
\* text, fonts and glyphs found or not: it pushes two transforms at the
\* start and pops two at the end, the push of a glyph is popped before the
\* next glyph, and the depth never drops below the entry depth during the
\* call.
C24_TransformStackBalanced ==
    render.pc # "idle" =>
        /\ Above >= 0
        /\ SubSeq(render.stack, 1, Len(render.entry)) = render.entry
        /\ render.pc = "push_self" => Above = 0
        /\ render.pc = "push_text" => Above = 1
        /\ render.pc \in {"block", "glyph", "pop_text"} => Above = 2
        /\ render.pc \in {"render_shape", "pop_glyph"} => Above = 3
        /\ render.pc = "pop_self" => Above = 1
        /\ render.pc = "done" => render.stack = render.entry

\* render returned after two blocks, with a glyph drawn, a glyph its font
\* has not, and a font the library has not
C24_Witness ==
    /\ render.pc = "done"
    /\ render.b = 2
    /\ render.drawn >= 1
    /\ render.no_glyph
    /\ render.no_font

----------------------------------------------------------------------------
(* CpalAudioBackend::new *)

\* every call of cpal in init succeeds on the host
InitSucceeds ==
    /\ audio.env.device = "ok"
    /\ audio.env.config = "ok"
    /\ audio.env.channels = "ok"
    /\ audio.env.build = "ok"
    /\ audio.env.play = "ok"

\* a call of cpal in init panics before any call returns an error
InitPanics == init(audio.env).kind = "Panic"

\* C25: CpalAudioBackend::new runs init on a thread of its own and returns
\* only after that thread has ended: Ok(backend) exactly when init
\* succeeded, Err with the message of init's error when init returned an
\* error, Err("Panic when initializing audio") when the thread panicked;
\* the calling thread never panics because init failed: it returns one of
\* these whatever init did.
C25_NewJoinsInit ==
    audio.main = "returned" =>
           /\ audio.thread \in {"finished", "panicked"}
           /\ audio.ret.kind \in {"Ok", "Err"}
           /\ audio.ret.kind = "Ok" <=> InitSucceeds
           /\ audio.ret.kind = "Ok" =>
                  /\ audio.thread = "finished"
                  /\ init(audio.env).kind = "Ok"
                  /\ audio.ret.val = init(audio.env).val
           /\ init(audio.env).kind = "Err" =>
                  /\ audio.thread = "finished"
                  /\ audio.ret.kind = "Err"
                  /\ audio.ret.val.message = init(audio.env).val.message
           /\ (audio.thread = "panicked") <=> InitPanics
           /\ audio.thread = "panicked" =>
                  /\ audio.ret.kind = "Err"
                  /\ audio.ret.val.message = "Panic when initializing audio"

\* new returned the error for a panic of build_output_stream, on a host
\* where the device and its configuration were found
C25_Witness ==
    /\ audio.main = "returned"
    /\ audio.thread = "panicked"
    /\ audio.env.device = "ok"
    /\ audio.env.config = "ok"
    /\ audio.env.channels = "ok"
    /\ audio.env.build = "panic"
    /\ audio.ret.kind = "Err"

====
